---- MODULE Spec2Model ----
(***************************************************************************)
(* Approval lifecycle and wait/notify coordination of the Jenkins approval *)
(* robot: APIHandler (src/src/handlers/api_handler.py) over the durable    *)
(* store DatabaseService (src/src/services/database_service.py).           *)
(*                                                                         *)
(* One approval id is followed through its life.  Every thread of the      *)
(* program that touches it is a process of the model:                      *)
(*   - the request thread of approval_wait (creation, wait loop, deadline  *)
(*     path),                                                              *)
(*   - the request threads that call process_approval_internal,            *)
(*   - the timeout_handler thread started at creation,                     *)
(*   - the reminder_task thread started at creation,                       *)
(*   - the cleanup_task thread started by the constructor.                 *)
(* The code takes no lock around the dictionaries and sets of APIHandler,  *)
(* so a thread can be preempted between any two accesses to them: a step   *)
(* of the model holds at most one test or one store of the status, the    *)
(* approver, the marker set and the event, together with the code around   *)
(* it that no other thread observes.                                       *)
(*                                                                         *)
(* Time is abstracted to two facts about the approval that become true     *)
(* once and stay true: its timeout has elapsed, and it is older than the   *)
(* cleanup thread's age threshold.  A sleep ends at any later moment.      *)
(* max_wait_seconds is counted in slices of check_interval, and the        *)
(* timeout has elapsed at the latest when the wait loop has blocked        *)
(* max_wait_seconds slices.                                                *)
(* A query of the durable store may fail; the store's methods catch the    *)
(* exception and answer None, False or SYSTEM_ERROR.                       *)
(***************************************************************************)
EXTENDS Naturals, FiniteSets, Sequences, TLC

\* ------------------------------------------------------------------ bounds

\* Number of concurrent calls of process_approval_internal.
NumCallers == 2

\* max_wait_seconds of the request, in slices of check_interval.
MaxWait == 2

\* The largest timeout a client passes to lock_approval, in ticks of the
\* store's clock.
MaxTtl == 1

\* ------------------------------------------------------- program constants

\* max_reminders of reminder_task.
max_reminders == 6

\* len(_stopped_reminders) above which cleanup_task cuts the set down.
StoppedTrimSize == 100

\* The number of ids cleanup_task then keeps in the set.
StoppedKept == 50

\* --------------------------------------------------------------- alphabets

\* The approval id that approval_wait derives from project, env, build and
\* the creation second.
aid == "approval-p-e-1-t"

Callers == 1..NumCallers

NoValue == "none"

\* ApprovalStatus
PENDING == "pending"
APPROVED == "approved"
REJECTED == "rejected"
TIMEOUT == "timeout"

\* The decisions users submit: the action the transport passes (every caller
\* of process_approval_internal passes 'approved' or 'rejected'), the user
\* name and the transport's comment.
Requests ==
    { [action |-> "approved", user |-> "alice", comment |-> "web"],
      [action |-> "rejected", user |-> "bob", comment |-> "telegram"] }

\* permission_service.get_user_role: the configured role of the user, and
\* the default role of a user that has none.
get_user_role(u) == IF u = "alice" THEN "admin" ELSE "user"

\* The suffix of the last branch, added to every action.
FinalStatusSuffixing(action) == action \o "d"

\* api_handler.py:109-116: the status stored for the action argument.
FinalStatus(action) ==
    IF action = "approve" THEN APPROVED
    ELSE IF action = "reject" THEN REJECTED
    ELSE IF action \in {"approved", "rejected"} THEN action
    ELSE action \o "d"

\* ------------------------------------------------------------------- state

VARIABLES
    \* APIHandler's shared state (api_handler.py:29-33)
    pending_approvals,      \* id -> in-memory record, for the ids held
    approval_events,        \* id -> flag of the id's threading.Event
    processing_approvals,   \* ids marked as being processed
    stopped_reminders,      \* ids whose reminders were stopped
    \* the approvals table of the durable store
    db,                     \* id -> row, for the rows that exist
    \* the request thread of approval_wait
    w_pc, waited, memory_status, w_slept, w_orphan, w_row, w_result,
    \* the timeout_handler thread
    t_pc,
    \* the request threads of process_approval_internal
    c_pc, c_arg, c_ret,
    \* the cleanup_task thread
    k_pc,
    \* the reminder_task thread
    r_pc, count,
    \* a second request of approval_wait that derives the same id
    dup_pc,
    \* the last call of a DatabaseService method made directly by a client
    \* of the store, with its arguments and what it answered
    s_last,
    \* a call of _handle_approval, and the thread it starts to delete the
    \* event two seconds after a success
    g_pc, g_arg, g_ret, g_locked, g_cleaner,
    \* reminder_timers (api_handler.py:29): the ids whose reminder thread
    \* is registered
    reminder_timers,
    \* ApprovalManager's state (approval_manager.py:20-21) and its last call
    approval_cache,         \* approval id -> Approval, for the ids created
    rejected_builds_cache,  \* rejection key -> who rejected the build
    m_last,                 \* the last call of an ApprovalManager method
    \* the passing of time
    deadline_passed,        \* timeout_minutes have elapsed since creation
    aged,                   \* the record is older than the cleanup threshold
    \* history, written by no code: what the claims speak about
    h_applied_at_return,    \* the calls told success when approval_wait returned
    h_signalled_blocked,    \* the calls that set the event of the blocked waiter
    h_early_calls,          \* the calls issued before approval_wait returned
    h_slices,               \* the slices the wait loop has blocked so far
    h_at_call,              \* what each call found of the id when it was issued
    h_unwoken,              \* the writers that took the status from pending and
                            \* have not set the event since
    h_reminders             \* the reminder_count of each reminder sent, in order

shared == <<pending_approvals, approval_events, processing_approvals,
            stopped_reminders, db>>
wvars == <<w_pc, waited, memory_status, w_slept, w_orphan, w_row, w_result>>
cvars == <<c_pc, c_arg, c_ret>>
rvars == <<r_pc, count, h_reminders>>
tvars == <<deadline_passed, aged>>
dvars == <<dup_pc>>
svars == <<s_last>>
gvars == <<g_pc, g_arg, g_ret, g_locked, g_cleaner>>
mvars == <<reminder_timers>>
avars == <<approval_cache, rejected_builds_cache, m_last>>
hvars0 == <<h_applied_at_return, h_signalled_blocked, h_early_calls, h_slices,
            h_at_call>>
hvars == <<hvars0, h_unwoken>>


vars == <<shared, wvars, t_pc, cvars, k_pc, rvars, tvars, dvars, svars,
          gvars, mvars, avars, hvars>>

\* ----------------------------------------------------------------- helpers

Held(id) == id \in DOMAIN pending_approvals

StatusOf(id) == pending_approvals[id].status

\* dict.get(key, default) on a field that may never have been set.
Get(value, default) == IF value = NoValue THEN default ELSE value

\* The writers of a record's status: call c is writer c, and
TimeoutWriter == 0
WaitWriter == NumCallers + 1

\* The store of `status` by a writer takes the record from pending.
Turns(status) == Held(aid) /\ StatusOf(aid) = PENDING /\ status # PENDING

\* The times a record's updated_at can hold are told apart by the store
\* that read the clock: no store yet, the store of a call, the store of the
\* timeout thread.
NotUpdated == <<"never", 0>>
UpdatedByCall(c) == <<"call", c>>
UpdatedByTimeout == <<"timeout_handler", 0>>

\* What a record can hold as created_at: the naive ISO string that
\* datetime.now().isoformat() gives (api_handler.py:394), nothing, a string
\* that is no date, and an ISO string with a zone.
CreatedNow == "2026-01-01T00:00:00"
CreatedAtInputs == {CreatedNow, "", "not-a-date", "2026-01-01T00:00:00Z"}

\* cleanup_task computes the age of a record (api_handler.py:2054-2070) only
\* when created_at is there (2055-2057), parses (2065; ValueError otherwise)
\* and is naive (a time with a zone parses after line 2061, and line 2070
\* then raises TypeError on subtracting it from the naive now).
AgeKnown(created_at) == created_at \notin {"", "not-a-date", "2026-01-01T00:00:00Z"}

\* The test of the sweep, were the handler of line 2076 to mark the record
\* expired as the branch of line 2072 does.
ExpiredWhateverItsTime(rec, old) == old

\* api_handler.py:2054-2080: the record goes to expired_ids when its age is
\* known and over the threshold.
Expired(rec, old) == AgeKnown(rec.created_at) /\ old

\* approval_data as approval_wait builds it (api_handler.py:382-397); the
\* request is created at time 0, so that the deadline is the timeout.
NewRecord ==
    [status |-> PENDING, approver |-> NoValue, approver_role |-> NoValue,
     comment |-> NoValue, reminder_stopped |-> FALSE,
     updated_at |-> NotUpdated, created_at |-> CreatedNow,
     timeout_minutes |-> MaxWait, expires_at |-> MaxWait]

\* The row create_approval inserts (database_service.py:215-224).
\* history is the actions of the rows of approval_history that carry the
\* request_id, oldest first; create_approval inserts the first in the
\* transaction of the row (database_service.py:227).
\* lock_age is the time since lock_timestamp, in ticks of the store's clock,
\* and 0 while lock_timestamp is NULL; a NULL lock_timeout is 0.  The code
\* sets and clears is_locked and lock_timestamp together and reads
\* lock_timeout of locked rows only.
NewRow ==
    [status |-> PENDING, approver |-> NoValue, approver_role |-> NoValue,
     comment |-> NoValue, is_locked |-> FALSE, timeout_seconds |-> MaxWait,
     lock_age |-> 0, lock_timeout |-> 0, history |-> <<"created">>]

\* _cancel_reminder_timer: the stop set after the call.
CancelStopped(stopped, id) == stopped \cup {id}

\* _cancel_reminder_timer: the registered reminder threads after the call
\* (api_handler.py:2002-2010).
CancelTimers(timers, id) == timers \ {id}

\* _cancel_reminder_timer, were it to move the pending record to the
\* "processing" its log message speaks of.
CancelRecordsProcessing(pa, id) ==
    IF id \in DOMAIN pa /\ pa[id].status = PENDING
    THEN [pa EXCEPT ![id].status = "processing"]
    ELSE pa

\* _cancel_reminder_timer: the records after the call; a record that is
\* still pending gets its reminder_stopped mark.
CancelRecords(pa, id) ==
    IF id \in DOMAIN pa /\ pa[id].status = PENDING
    THEN [pa EXCEPT ![id].reminder_stopped = TRUE]
    ELSE pa

\* threading.Event.set on the id's event, when the id has one.
SetEvent(ev, id) == IF id \in DOMAIN ev THEN [ev EXCEPT ![id] = TRUE] ELSE ev

\* The dictionary with the key deleted (del d[id]).
Without(d, id) == [k \in DOMAIN d \ {id} |-> d[k]]

\* The dictionary with the key bound (d[id] = v).
With(d, id, v) == [k \in DOMAIN d \cup {id} |-> IF k = id THEN v ELSE d[k]]

\* ----------------------------------------------------------- durable store

\* create_approval: whether the INSERT succeeds. request_id is the PRIMARY
\* KEY of approvals (database_service.py:166), so inserting an id that has a
\* row raises, and the except clause answers False.
InsertCodeReplacing(d, id, query_ok) == query_ok

InsertCode(d, id, query_ok) == query_ok /\ id \notin DOMAIN d

\* create_approval: the table after the call.
InsertRows(d, id, row, query_ok) ==
    IF InsertCode(d, id, query_ok) THEN With(d, id, row) ELSE d

\* update_approval_status, were it to test the lock before the status.
UpdateCodeLockFirst(d, id, approver) ==
    IF id \notin DOMAIN d THEN "NOT_FOUND"
    ELSE IF ~d[id].is_locked \/ d[id].approver # approver THEN "LOCK_REQUIRED"
    ELSE IF d[id].status # PENDING THEN "ALREADY_PROCESSED"
    ELSE "SUCCESS"

\* update_approval_status: the code it answers with.
UpdateCode(d, id, approver) ==
    IF id \notin DOMAIN d THEN "NOT_FOUND"
    ELSE IF d[id].status # PENDING THEN "ALREADY_PROCESSED"
    ELSE IF ~d[id].is_locked \/ d[id].approver # approver THEN "LOCK_REQUIRED"
    ELSE "SUCCESS"

\* update_approval_status without the call of _add_history (line 463).
UpdateRowsUnrecorded(d, id, status, approver, role, comment) ==
    IF UpdateCode(d, id, approver) = "SUCCESS"
    THEN [d EXCEPT ![id] = [@ EXCEPT !.status = status,
                                     !.approver = approver,
                                     !.approver_role = role,
                                     !.comment = comment,
                                     !.is_locked = FALSE,
                                     !.lock_age = 0]]
    ELSE d

\* update_approval_status: the table after the call.
UpdateRows(d, id, status, approver, role, comment) ==
    IF UpdateCode(d, id, approver) = "SUCCESS"
    THEN [d EXCEPT ![id] = [@ EXCEPT !.status = status,
                                     !.approver = approver,
                                     !.approver_role = role,
                                     !.comment = comment,
                                     !.is_locked = FALSE,
                                     !.lock_age = 0,
                                     !.history = Append(@, status)]]
    ELSE d

\* lock_approval, lines 301-309: a lock older than its stated timeout counts
\* as released.
LockExpired(row) == row.is_locked /\ row.lock_age > row.lock_timeout

\* lock_approval, were it to overlook the holder of the lock.
LockCodeStealing(d, id, holder, query_ok) == query_ok /\ id \in DOMAIN d

\* lock_approval: whether it answers True.  No row, a lock that has not
\* expired and is another holder's, and a failure of the store answer False.
LockCode(d, id, holder, query_ok) ==
    /\ query_ok
    /\ id \in DOMAIN d
    /\ \/ ~d[id].is_locked
       \/ LockExpired(d[id])
       \/ d[id].approver = holder

\* lock_approval: the table after the call (lines 318-333).
LockRows(d, id, holder, ttl, query_ok) ==
    IF LockCode(d, id, holder, query_ok)
    THEN [d EXCEPT ![id] = [@ EXCEPT !.is_locked = TRUE,
                                     !.lock_age = 0,
                                     !.lock_timeout = ttl,
                                     !.approver = holder]]
    ELSE d

\* unlock_approval: the table after the call; the holder is not asked for.
UnlockRows(d, id) ==
    IF id \in DOMAIN d
    THEN [d EXCEPT ![id] = [@ EXCEPT !.is_locked = FALSE,
                                     !.lock_age = 0,
                                     !.lock_timeout = 0]]
    ELSE d

\* cleanup_expired_approvals, were its SELECT to leave out the test of the
\* status.
SweepRowsAnyStatus(d, expired) ==
    [id \in DOMAIN d |->
        IF expired
        THEN [d[id] EXCEPT !.status = TIMEOUT,
                           !.history = Append(@, "timeout")]
        ELSE d[id]]

\* cleanup_expired_approvals, were its UPDATE to clear the timeout of the
\* rows it expires.
SweepRowsClearing(d, expired) ==
    [id \in DOMAIN d |->
        IF d[id].status = PENDING /\ expired
        THEN [d[id] EXCEPT !.status = TIMEOUT, !.timeout_seconds = 0,
                           !.history = Append(@, "timeout")]
        ELSE d[id]]

\* cleanup_expired_approvals: pending rows older than their own timeout
\* become timeout and get a history entry; nothing else of the row changes.
SweepRows(d, expired) ==
    [id \in DOMAIN d |->
        IF d[id].status = PENDING /\ expired
        THEN [d[id] EXCEPT !.status = TIMEOUT,
                           !.history = Append(@, "timeout")]
        ELSE d[id]]

\* get_approval gives None when the row is missing and when the query
\* raises (database_service.py:271-275).
NoRow == [found |-> FALSE, status |-> NoValue, approver |-> NoValue]

\* get_approval: what the caller receives.
ReadRow(d, id, query_ok) ==
    IF query_ok /\ id \in DOMAIN d
    THEN [found |-> TRUE, status |-> d[id].status, approver |-> d[id].approver]
    ELSE NoRow

\* -------------------------------------------------------------------- Init

\* No call made yet, no response built yet.
NoCall == [op |-> "none", odd |-> FALSE]
\* No call of an ApprovalManager method made yet.
NoManagerCall == [op |-> "none", odd |-> FALSE]
NoArg == [action |-> NoValue, user |-> NoValue, comment |-> NoValue]

NoResult == [result |-> NoValue, approver |-> NoValue]

\* The state the constructor leaves: nothing registered, the cleanup thread
\* asleep.
Init ==
    /\ pending_approvals = << >>
    /\ approval_events = << >>
    /\ processing_approvals = {}
    /\ stopped_reminders = {}
    /\ db = << >>
    /\ w_pc = "start"
    /\ waited = 0
    /\ memory_status = NoValue
    /\ w_slept = 0
    /\ w_orphan = FALSE
    /\ w_row = NoRow
    /\ w_result = NoResult
    /\ t_pc = "unborn"
    /\ c_pc = [c \in Callers |-> "idle"]
    /\ c_arg = [c \in Callers |-> NoArg]
    /\ c_ret = [c \in Callers |-> NoValue]
    /\ k_pc = "sleep"
    /\ r_pc = "unborn"
    /\ count = 0
    /\ dup_pc = "idle"
    /\ s_last = NoCall
    /\ g_pc = "idle"
    /\ g_arg = NoArg
    /\ g_ret = NoValue
    /\ g_locked = FALSE
    /\ g_cleaner = "unborn"
    /\ reminder_timers = {}
    /\ approval_cache = <<>>
    /\ rejected_builds_cache = <<>>
    /\ m_last = NoManagerCall
    /\ deadline_passed = FALSE
    /\ aged = FALSE
    /\ h_applied_at_return = {}
    /\ h_signalled_blocked = {}
    /\ h_early_calls = {}
    /\ h_at_call = [c \in Callers |-> NoValue]
    /\ h_unwoken = {}
    /\ h_slices = 0
    /\ h_reminders = << >>

\* ------------------------------------------------- approval_wait: creation

\* The calls that have been told success.
AppliedCalls == {c \in Callers : c_ret[c] = "ok"}

\* approval_wait returns `res`.
WaitReturns(res) ==
    /\ w_pc' = "done"
    /\ w_result' = res
    /\ h_applied_at_return' = AppliedCalls

\* approval_wait, were it to store the record (line 400) before it tests the
\* owners and the insert.
CreateRecordFirst ==
    /\ w_pc = "start"
    /\ \E owners_ok \in BOOLEAN, insert_ok \in BOOLEAN :
        IF owners_ok /\ InsertCode(db, aid, insert_ok)
        THEN /\ db' = InsertRows(db, aid, NewRow, insert_ok)
             /\ pending_approvals' = With(pending_approvals, aid, NewRecord)
             /\ approval_events' = With(approval_events, aid, FALSE)
             /\ r_pc' = "first_wait"
             /\ reminder_timers' = reminder_timers \cup {aid}
             /\ t_pc' = "sleep"
             /\ w_pc' = "head"
             /\ UNCHANGED <<w_result, h_applied_at_return>>
        ELSE /\ WaitReturns([result |-> "error", approver |-> NoValue])
             /\ pending_approvals' = With(pending_approvals, aid, NewRecord)
             /\ UNCHANGED <<db, approval_events, r_pc, t_pc, reminder_timers>>
    /\ UNCHANGED <<processing_approvals, stopped_reminders, waited,
                   memory_status, w_slept, w_orphan, w_row, cvars, k_pc, count,
                   h_reminders,
                   tvars, dvars, svars, gvars, avars, h_signalled_blocked, h_early_calls,
                   h_slices,
                   h_at_call, h_unwoken>>

\* api_handler.py:347-459.  Without project owners, or when the insert into
\* the durable store fails, the request ends with an error and nothing is
\* registered.  Otherwise the row, the record and the event exist and the
\* reminder and timeout threads run.
Create ==
    /\ w_pc = "start"
    /\ \E owners_ok \in BOOLEAN, insert_ok \in BOOLEAN :
        IF owners_ok /\ InsertCode(db, aid, insert_ok)
        THEN /\ db' = InsertRows(db, aid, NewRow, insert_ok)
             /\ pending_approvals' = With(pending_approvals, aid, NewRecord)
             /\ approval_events' = With(approval_events, aid, FALSE)
             /\ r_pc' = "first_wait"
             /\ reminder_timers' = reminder_timers \cup {aid}
             /\ t_pc' = "sleep"
             /\ w_pc' = "head"
             /\ UNCHANGED <<w_result, h_applied_at_return>>
        ELSE /\ WaitReturns([result |-> "error", approver |-> NoValue])
             /\ UNCHANGED <<db, pending_approvals, approval_events, r_pc, t_pc,
                            reminder_timers>>
    /\ UNCHANGED <<processing_approvals, stopped_reminders, waited,
                   memory_status, w_slept, w_orphan, w_row, cvars, k_pc, count,
                   h_reminders,
                   tvars, dvars, svars, gvars, avars, h_signalled_blocked, h_early_calls,
                   h_slices,
                   h_at_call, h_unwoken>>


\* A second request of approval_wait for the same project, environment and
\* build in the same second: line 349 derives the id of the first. It runs
\* the same lines 351-403; the threads it would start after a successful
\* creation are not modelled.
CreateDuplicate ==
    /\ dup_pc = "idle"
    /\ aid \in DOMAIN db
    /\ \E owners_ok \in BOOLEAN, insert_ok \in BOOLEAN :
        IF owners_ok /\ InsertCode(db, aid, insert_ok)
        THEN /\ db' = InsertRows(db, aid, NewRow, insert_ok)
             /\ pending_approvals' = With(pending_approvals, aid, NewRecord)
             /\ approval_events' = With(approval_events, aid, FALSE)
             /\ dup_pc' = "created"
        ELSE /\ dup_pc' = "error"
             /\ UNCHANGED <<db, pending_approvals, approval_events>>
    /\ UNCHANGED <<processing_approvals, stopped_reminders, wvars, t_pc,
                   cvars, k_pc, rvars, tvars, svars, gvars, mvars, avars, hvars>>
\* ------------------------------------------- process_approval_internal

\* A call returns `ret` under a finally clause that leaves the marker.
CallReturnsMarked(c, ret, marked) ==
    /\ c_pc' = [c_pc EXCEPT ![c] = "done"]
    /\ c_ret' = [c_ret EXCEPT ![c] = ret]
    /\ UNCHANGED processing_approvals

\* A call returns `ret`; the finally clause removes the marker when the call
\* had got past setting it (api_handler.py:164-166).
CallReturns(c, ret, marked) ==
    /\ c_pc' = [c_pc EXCEPT ![c] = "done"]
    /\ c_ret' = [c_ret EXCEPT ![c] = ret]
    /\ processing_approvals' =
          IF marked THEN processing_approvals \ {aid} ELSE processing_approvals

\* A request arrives: a user approves or rejects the id over some
\* transport.  The id is known to users once the approval exists.
Call(c) ==
    /\ c_pc[c] = "idle"
    /\ w_pc # "start"
    /\ \E req \in Requests : c_arg' = [c_arg EXCEPT ![c] = req]
    /\ c_pc' = [c_pc EXCEPT ![c] = "guard"]
    /\ h_early_calls' = IF w_pc # "done" THEN h_early_calls \cup {c}
                        ELSE h_early_calls
    /\ h_at_call' = [h_at_call EXCEPT
                        ![c] = IF Held(aid) THEN StatusOf(aid) ELSE "absent"]
    /\ UNCHANGED <<shared, wvars, t_pc, c_ret, k_pc, rvars, tvars, dvars, svars, gvars, mvars, avars,
                   h_applied_at_return, h_signalled_blocked, h_slices,
                   h_unwoken>>

\* api_handler.py:67-69: the marker is tested ...
CallGuard(c) ==
    /\ c_pc[c] = "guard"
    /\ IF aid \in processing_approvals
       THEN CallReturns(c, "in_progress", FALSE)
       ELSE /\ c_pc' = [c_pc EXCEPT ![c] = "mark"]
            /\ UNCHANGED <<c_ret, processing_approvals>>
    /\ UNCHANGED <<pending_approvals, approval_events, stopped_reminders, db,
                   wvars, t_pc, c_arg, k_pc, rvars, tvars, dvars, svars, gvars, mvars, avars, hvars>>

\* api_handler.py:71-76: ... and set in a later step; then the reminders
\* are cancelled.
CallMark(c) ==
    /\ c_pc[c] = "mark"
    /\ processing_approvals' = processing_approvals \cup {aid}
    /\ stopped_reminders' = CancelStopped(stopped_reminders, aid)
    /\ pending_approvals' = CancelRecords(pending_approvals, aid)
    /\ reminder_timers' = CancelTimers(reminder_timers, aid)
    /\ UNCHANGED avars
    /\ c_pc' = [c_pc EXCEPT ![c] = "check"]
    /\ UNCHANGED <<approval_events, db, wvars, t_pc, c_arg, c_ret, k_pc, rvars,
                   tvars, dvars, svars, gvars, hvars>>

\* Lines 79-82 without the test that the id is held.
CallCheckUntested(c) ==
    /\ c_pc[c] = "check"
    /\ c_pc' = [c_pc EXCEPT ![c] = "status"]
    /\ UNCHANGED <<shared, wvars, t_pc, c_arg, c_ret, k_pc, rvars, tvars, dvars, svars, gvars, mvars, avars,
                   hvars>>

\* api_handler.py:79-82: the id must be held.
CallCheck(c) ==
    /\ c_pc[c] = "check"
    /\ IF ~Held(aid) THEN CallReturns(c, "not_found", TRUE)
       ELSE /\ c_pc' = [c_pc EXCEPT ![c] = "status"]
            /\ UNCHANGED <<c_ret, processing_approvals>>
    /\ UNCHANGED <<pending_approvals, approval_events, stopped_reminders, db,
                   wvars, t_pc, c_arg, k_pc, rvars, tvars, dvars, svars, gvars, mvars, avars, hvars>>

\* Lines 85-97 without the test of the status.
CallStatusUntested(c) ==
    /\ c_pc[c] = "status"
    /\ IF ~Held(aid) THEN CallReturns(c, "error", TRUE)
       ELSE /\ c_pc' = [c_pc EXCEPT ![c] = "w_status"]
            /\ UNCHANGED <<c_ret, processing_approvals>>
    /\ UNCHANGED <<pending_approvals, approval_events, stopped_reminders, db,
                   wvars, t_pc, c_arg, k_pc, rvars, tvars, dvars, svars, gvars, mvars, avars, hvars>>

\* api_handler.py:85-97: its status must be pending. The read of a record
\* the cleanup thread has deleted since line 79 raises KeyError: the call
\* ends in the handler of api_handler.py:168-173.
CallStatus(c) ==
    /\ c_pc[c] = "status"
    /\ IF ~Held(aid) THEN CallReturns(c, "error", TRUE)
       ELSE IF StatusOf(aid) # PENDING
            THEN CallReturns(c, "already_processed", TRUE)
       ELSE /\ c_pc' = [c_pc EXCEPT ![c] = "w_status"]
            /\ UNCHANGED <<c_ret, processing_approvals>>
    /\ UNCHANGED <<pending_approvals, approval_events, stopped_reminders, db,
                   wvars, t_pc, c_arg, k_pc, rvars, tvars, dvars, svars, gvars, mvars, avars, hvars>>

\* A store into the record of an id the cleanup thread has deleted raises
\* KeyError: the call ends in the handler of api_handler.py:168-173.
CallWrite(c, at, next, rec) ==
    /\ c_pc[c] = at
    /\ IF Held(aid)
       THEN /\ pending_approvals' = [pending_approvals EXCEPT ![aid] = rec]
            /\ c_pc' = [c_pc EXCEPT ![c] = next]
            /\ UNCHANGED <<c_ret, processing_approvals>>
       ELSE /\ CallReturns(c, "error", TRUE)
            /\ UNCHANGED pending_approvals
    /\ h_unwoken' = IF Turns(rec.status) THEN h_unwoken \cup {c} ELSE h_unwoken
    /\ UNCHANGED <<approval_events, stopped_reminders, db, wvars, t_pc, c_arg,
                   k_pc, rvars, tvars, dvars, svars, gvars, mvars, avars, hvars0>>

\* api_handler.py:118.
CallWriteStatus(c) ==
    CallWrite(c, "w_status", "w_approver",
              [pending_approvals[aid] EXCEPT
                  !.status = FinalStatus(c_arg[c].action)])

\* api_handler.py:119.
CallWriteApprover(c) ==
    CallWrite(c, "w_approver", "w_rest",
              [pending_approvals[aid] EXCEPT !.approver = c_arg[c].user])

\* api_handler.py:120-123.
CallWriteRest(c) ==
    CallWrite(c, "w_rest", "event",
              [pending_approvals[aid] EXCEPT
                  !.approver_role = get_user_role(c_arg[c].user),
                  !.comment = c_arg[c].comment,
                  !.updated_at = UpdatedByCall(c),
                  !.reminder_stopped = TRUE])

\* api_handler.py:132-156: the id's event is set; when the id has none, a
\* new event is made, set and registered.
CallEvent(c) ==
    /\ c_pc[c] = "event"
    /\ approval_events' = With(approval_events, aid, TRUE)
    /\ h_signalled_blocked' =
          IF w_pc = "blocked" /\ ~w_orphan /\ aid \in DOMAIN approval_events
          THEN h_signalled_blocked \cup {c}
          ELSE h_signalled_blocked
    /\ h_unwoken' = h_unwoken \ {c}
    /\ c_pc' = [c_pc EXCEPT ![c] = "ret"]
    /\ UNCHANGED <<pending_approvals, processing_approvals, stopped_reminders,
                   db, wvars, t_pc, c_arg, c_ret, k_pc, rvars, tvars, dvars, svars, gvars, mvars, avars,
                   h_applied_at_return, h_early_calls, h_slices, h_at_call>>

\* api_handler.py:162-166.
CallDone(c) ==
    /\ c_pc[c] = "ret"
    /\ CallReturns(c, "ok", TRUE)
    /\ UNCHANGED <<pending_approvals, approval_events, stopped_reminders, db,
                   wvars, t_pc, c_arg, k_pc, rvars, tvars, dvars, svars, gvars, mvars, avars, hvars>>

process_approval_internal(c) ==
    \/ Call(c)
    \/ CallGuard(c)
    \/ CallMark(c)
    \/ CallCheck(c)
    \/ CallStatus(c)
    \/ CallWriteStatus(c)
    \/ CallWriteApprover(c)
    \/ CallWriteRest(c)
    \/ CallEvent(c)
    \/ CallDone(c)

\* ------------------------------------------------------------------- time

\* timeout_minutes elapse; the loop of approval_wait, whose iterations take
\* a slice and more, may then have blocked fewer slices than it will.
DeadlinePasses ==
    /\ aid \in DOMAIN db
    /\ ~deadline_passed
    /\ deadline_passed' = TRUE
    /\ UNCHANGED <<shared, wvars, t_pc, cvars, k_pc, rvars, aged, dvars, svars, gvars, mvars, avars,
                   hvars>>

\* The record grows older than the threshold of cleanup_task.
Ages ==
    /\ aid \in DOMAIN db
    /\ ~aged
    /\ aged' = TRUE
    /\ UNCHANGED <<shared, wvars, t_pc, cvars, k_pc, rvars, deadline_passed, dvars, svars, gvars, mvars, avars,
                   hvars>>

\* --------------------------------------------------------- timeout_handler

\* api_handler.py:430-431: the sleep ends and the status is tested.
TimeoutCheck ==
    /\ t_pc = "sleep"
    /\ deadline_passed
    /\ t_pc' = IF Held(aid) /\ StatusOf(aid) = PENDING THEN "w_status" ELSE "done"
    /\ UNCHANGED <<shared, wvars, cvars, k_pc, rvars, tvars, dvars, svars, gvars, mvars, avars, hvars>>

\* A store into a deleted record raises KeyError and ends the thread.
TimeoutWrite(at, next, rec) ==
    /\ t_pc = at
    /\ IF Held(aid)
       THEN /\ pending_approvals' = [pending_approvals EXCEPT ![aid] = rec]
            /\ t_pc' = next
       ELSE /\ t_pc' = "done"
            /\ UNCHANGED pending_approvals
    /\ h_unwoken' = IF Turns(rec.status) THEN h_unwoken \cup {TimeoutWriter}
                    ELSE h_unwoken
    /\ UNCHANGED <<approval_events, processing_approvals, stopped_reminders, db,
                   wvars, cvars, k_pc, rvars, tvars, dvars, svars, gvars, mvars, avars, hvars0>>

\* api_handler.py:440.
TimeoutWriteStatus ==
    TimeoutWrite("w_status", "w_approver",
                 [pending_approvals[aid] EXCEPT !.status = TIMEOUT])

\* api_handler.py:441.
TimeoutWriteApprover ==
    TimeoutWrite("w_approver", "w_rest",
                 [pending_approvals[aid] EXCEPT !.approver = "system"])

\* api_handler.py:442-444.
TimeoutWriteRest ==
    TimeoutWrite("w_rest", "notify",
                 [pending_approvals[aid] EXCEPT !.approver_role = "system",
                                                !.comment = "timeout",
                                                !.updated_at = UpdatedByTimeout])

\* api_handler.py:450-456: the event is set and the reminders cancelled.
TimeoutNotify ==
    /\ t_pc = "notify"
    /\ approval_events' = SetEvent(approval_events, aid)
    /\ stopped_reminders' = CancelStopped(stopped_reminders, aid)
    /\ pending_approvals' = CancelRecords(pending_approvals, aid)
    /\ reminder_timers' = CancelTimers(reminder_timers, aid)
    /\ UNCHANGED avars
    /\ h_unwoken' = IF aid \in DOMAIN approval_events
                    THEN h_unwoken \ {TimeoutWriter}
                    ELSE h_unwoken
    /\ t_pc' = "done"
    /\ UNCHANGED <<processing_approvals, db, wvars, cvars, k_pc, rvars, tvars, dvars, svars, gvars,
                   hvars0>>

timeout_handler ==
    \/ TimeoutCheck
    \/ TimeoutWriteStatus
    \/ TimeoutWriteApprover
    \/ TimeoutWriteRest
    \/ TimeoutNotify

\* ------------------------------------------------ approval_wait: wait loop

\* api_handler.py:476: max_wait_seconds, in slices.
max_wait_seconds == MaxWait

\* api_handler.py:480: while waited < max_wait_seconds.
LoopEnds(w) == w >= max_wait_seconds

\* event_obj.wait() called without a timeout.
WaitGivesUpNever(is_set, orphan) == FALSE

\* api_handler.py:558: event_obj.wait(timeout=check_interval) gives up after
\* one slice when the event object it waits on is not set.
WaitGivesUp(is_set, orphan) == orphan \/ ~is_set

\* api_handler.py:585: waited += check_interval, at the end of an iteration
\* that blocked `slept` slices.  A slice is a second: once the loop has
\* blocked max_wait_seconds slices, timeout_minutes have elapsed.
EndIteration(slept) ==
    /\ waited' = waited + 1
    /\ w_slept' = slept
    /\ h_slices' = h_slices + slept
    /\ deadline_passed' = (deadline_passed \/ h_slices' >= max_wait_seconds)
    /\ w_pc' = "head"

\* api_handler.py:480-495: the loop test, then the read of the in-memory
\* status, which decides between the response and the wait.  (An entry
\* deleted between a membership test and the read that follows it, here and
\* at line 547, raises KeyError: the handler of lines 581-583 sleeps one
\* slice and the iteration ends, as an iteration without the record does.)
WaitHead ==
    /\ w_pc = "head"
    /\ IF LoopEnds(waited)
       THEN /\ w_pc' = "d_get"
            /\ UNCHANGED <<memory_status, w_slept>>
       ELSE /\ memory_status' = IF Held(aid) THEN StatusOf(aid) ELSE NoValue
            /\ w_pc' = IF memory_status' \notin {NoValue, PENDING}
                       THEN "build" ELSE "event"
            /\ w_slept' = 0
    /\ UNCHANGED <<shared, waited, w_orphan, w_row, w_result, t_pc, cvars, k_pc,
                   rvars, tvars, dvars, svars, gvars, mvars, avars, hvars>>

\* api_handler.py:507-543: the response is the status read at the loop head
\* with the approver the record holds now.  A record deleted in between
\* raises KeyError: the handler of api_handler.py:581-583 sleeps a slice.
WaitBuild ==
    /\ w_pc = "build"
    /\ IF Held(aid)
       THEN /\ stopped_reminders' = CancelStopped(stopped_reminders, aid)
            /\ pending_approvals' = CancelRecords(pending_approvals, aid)
            /\ reminder_timers' = CancelTimers(reminder_timers, aid)
            /\ WaitReturns([result |-> memory_status,
                            approver |-> Get(pending_approvals[aid].approver,
                                             "unknown")])
            /\ UNCHANGED <<waited, w_slept, h_slices, deadline_passed>>
       ELSE /\ EndIteration(1)
            /\ UNCHANGED <<stopped_reminders, pending_approvals, w_result,
                           h_applied_at_return, reminder_timers>>
    /\ UNCHANGED <<approval_events, processing_approvals, db, memory_status,
                   w_orphan, w_row, t_pc, cvars, k_pc, rvars, aged, dvars, svars, gvars,
                   avars, h_signalled_blocked, h_early_calls, h_at_call, h_unwoken>>

\* api_handler.py:546-570: a set event is cleared at once; an unset one is
\* waited on; without an event the thread sleeps a slice.
WaitEvent ==
    /\ w_pc = "event"
    /\ IF aid \in DOMAIN approval_events
       THEN IF approval_events[aid]
            THEN /\ approval_events' = [approval_events EXCEPT ![aid] = FALSE]
                 /\ w_pc' = "post"
                 /\ UNCHANGED <<w_slept, w_orphan>>
            ELSE /\ w_pc' = "blocked"
                 /\ w_orphan' = FALSE
                 /\ UNCHANGED <<approval_events, w_slept>>
       ELSE /\ w_pc' = "post"
            /\ w_slept' = 1
            /\ UNCHANGED <<approval_events, w_orphan>>
    /\ UNCHANGED <<pending_approvals, processing_approvals, stopped_reminders,
                   db, waited, memory_status, w_row, w_result, t_pc, cvars,
                   k_pc, rvars, tvars, dvars, svars, gvars, mvars, avars, hvars>>

\* api_handler.py:558-563: the wait returns True and the event is cleared.
WaitWoken ==
    /\ w_pc = "blocked"
    /\ ~w_orphan
    /\ aid \in DOMAIN approval_events
    /\ approval_events[aid]
    /\ approval_events' = [approval_events EXCEPT ![aid] = FALSE]
    /\ w_pc' = "post"
    /\ UNCHANGED <<pending_approvals, processing_approvals, stopped_reminders,
                   db, waited, memory_status, w_slept, w_orphan, w_row,
                   w_result, t_pc, cvars, k_pc, rvars, tvars, dvars, svars, gvars, mvars, avars, hvars>>

\* api_handler.py:558: the wait returns False after one slice.
WaitSliceElapsed ==
    /\ w_pc = "blocked"
    /\ WaitGivesUp(aid \in DOMAIN approval_events /\ approval_events[aid],
                   w_orphan)
    /\ w_slept' = 1
    /\ w_pc' = "post"
    /\ UNCHANGED <<shared, waited, memory_status, w_orphan, w_row, w_result,
                   t_pc, cvars, k_pc, rvars, tvars, dvars, svars, gvars, mvars, avars, hvars>>

\* api_handler.py:574-585: one more sleep when the id has no event and the
\* status read at the loop head was pending; then the iteration ends.
WaitPost ==
    /\ w_pc = "post"
    /\ EndIteration(IF aid \notin DOMAIN approval_events /\ memory_status = PENDING
                    THEN w_slept + 1 ELSE w_slept)
    /\ UNCHANGED <<shared, memory_status, w_orphan, w_row, w_result, t_pc, cvars,
                   k_pc, rvars, aged, dvars, svars, gvars, mvars, avars, h_applied_at_return, h_signalled_blocked,
                   h_early_calls, h_at_call, h_unwoken>>

\* -------------------------------------------- approval_wait: deadline path

\* api_handler.py:588-593, 643-648: the reminders are cancelled and the
\* durable row is read; without a row the answer is timeout.
WaitDeadlineGet ==
    /\ w_pc = "d_get"
    /\ stopped_reminders' = CancelStopped(stopped_reminders, aid)
    /\ pending_approvals' = CancelRecords(pending_approvals, aid)
    /\ reminder_timers' = CancelTimers(reminder_timers, aid)
    /\ UNCHANGED avars
    /\ \E query_ok \in BOOLEAN :
        /\ w_row' = ReadRow(db, aid, query_ok)
        /\ IF ~w_row'.found
           THEN WaitReturns([result |-> TIMEOUT, approver |-> NoValue])
           ELSE /\ w_pc' = IF w_row'.status = PENDING THEN "d_update" ELSE "d_sync"
                /\ UNCHANGED <<w_result, h_applied_at_return>>
    /\ UNCHANGED <<approval_events, processing_approvals, db, waited,
                   memory_status, w_slept, w_orphan, t_pc, cvars, k_pc, rvars,
                   tvars, dvars, svars, gvars, h_signalled_blocked, h_early_calls, h_slices,
                   h_at_call, h_unwoken>>

\* api_handler.py:595-597: the durable update, its answer unread.
WaitDeadlineUpdate ==
    /\ w_pc = "d_update"
    /\ \E query_ok \in BOOLEAN :
        db' = IF query_ok
              THEN UpdateRows(db, aid, TIMEOUT, "system", "system", "timeout")
              ELSE db
    /\ w_pc' = "d_force"
    /\ UNCHANGED <<pending_approvals, approval_events, processing_approvals,
                   stopped_reminders, waited, memory_status, w_slept, w_orphan,
                   w_row, w_result, t_pc, cvars, k_pc, rvars, tvars, dvars, svars, gvars, mvars, avars, hvars>>

\* api_handler.py:600, 609-614: without a record the answer is timeout.
WaitDeadlineForce ==
    /\ w_pc = "d_force"
    /\ IF Held(aid)
       THEN /\ w_pc' = "d_write"
            /\ UNCHANGED <<w_result, h_applied_at_return>>
       ELSE WaitReturns([result |-> TIMEOUT, approver |-> NoValue])
    /\ UNCHANGED <<shared, waited, memory_status, w_slept, w_orphan, w_row, t_pc,
                   cvars, k_pc, rvars, tvars, dvars, svars, gvars, mvars, avars, h_signalled_blocked,
                   h_early_calls, h_slices,
                   h_at_call, h_unwoken>>

\* api_handler.py:601-614: the in-memory status is set to timeout whatever
\* it was, the event is set, and the answer is timeout.  A record deleted
\* since the test of line 600 raises KeyError, which the handler of
\* api_handler.py:650-658 answers with an error.
WaitDeadlineWrite ==
    /\ w_pc = "d_write"
    /\ IF Held(aid)
       THEN /\ pending_approvals' = [pending_approvals EXCEPT ![aid].status = TIMEOUT]
            /\ approval_events' = SetEvent(approval_events, aid)
            /\ WaitReturns([result |-> TIMEOUT, approver |-> NoValue])
       ELSE /\ WaitReturns([result |-> "error", approver |-> NoValue])
            /\ UNCHANGED <<pending_approvals, approval_events>>
    /\ h_unwoken' = IF Turns(TIMEOUT) /\ aid \notin DOMAIN approval_events
                    THEN h_unwoken \cup {WaitWriter}
                    ELSE h_unwoken
    /\ UNCHANGED <<processing_approvals, stopped_reminders, db, waited,
                   memory_status, w_slept, w_orphan, w_row, t_pc, cvars, k_pc,
                   rvars, tvars, dvars, svars, gvars, mvars, avars, h_signalled_blocked, h_early_calls, h_slices,
                   h_at_call>>

\* api_handler.py:617, 625-641: the row was resolved; without a record the
\* event is deleted and the row is the answer.
WaitDeadlineSync ==
    /\ w_pc = "d_sync"
    /\ IF Held(aid)
       THEN /\ w_pc' = "d_copy"
            /\ UNCHANGED <<approval_events, w_result, h_applied_at_return>>
       ELSE /\ approval_events' = Without(approval_events, aid)
            /\ WaitReturns([result |-> w_row.status, approver |-> w_row.approver])
    /\ UNCHANGED <<pending_approvals, processing_approvals, stopped_reminders,
                   db, waited, memory_status, w_slept, w_orphan, w_row, t_pc,
                   cvars, k_pc, rvars, tvars, dvars, svars, gvars, mvars, avars, h_signalled_blocked,
                   h_early_calls, h_slices,
                   h_at_call, h_unwoken>>

\* api_handler.py:618-641: the row's status is copied to the record, the
\* event is deleted and the row is the answer; KeyError as above.
WaitDeadlineCopy ==
    /\ w_pc = "d_copy"
    /\ IF Held(aid)
       THEN /\ pending_approvals' = [pending_approvals EXCEPT ![aid].status = w_row.status]
            /\ approval_events' = Without(approval_events, aid)
            /\ WaitReturns([result |-> w_row.status, approver |-> w_row.approver])
       ELSE /\ WaitReturns([result |-> "error", approver |-> NoValue])
            /\ UNCHANGED <<pending_approvals, approval_events>>
    /\ h_unwoken' = IF Turns(w_row.status) THEN h_unwoken \cup {WaitWriter}
                    ELSE h_unwoken
    /\ UNCHANGED <<processing_approvals, stopped_reminders, db, waited,
                   memory_status, w_slept, w_orphan, w_row, t_pc, cvars, k_pc,
                   rvars, tvars, dvars, svars, gvars, mvars, avars, h_signalled_blocked, h_early_calls, h_slices,
                   h_at_call>>

\* api_handler.py:480-585.
wait_loop ==
    \/ WaitHead
    \/ WaitBuild
    \/ WaitEvent
    \/ WaitWoken
    \/ WaitSliceElapsed
    \/ WaitPost

\* api_handler.py:587-614, 643-648.
deadline_path ==
    \/ WaitDeadlineGet
    \/ WaitDeadlineUpdate
    \/ WaitDeadlineForce
    \/ WaitDeadlineWrite

\* api_handler.py:615-641.
deadline_sync ==
    \/ WaitDeadlineSync
    \/ WaitDeadlineCopy

approval_wait ==
    \/ Create
    \/ wait_loop
    \/ deadline_path
    \/ deadline_sync

\* ------------------------------------------------------------ cleanup_task

\* api_handler.py:2030-2045: after the sleep the set of in-progress markers
\* is emptied, and the stop set is cut down to StoppedKept of its ids once
\* it holds more than StoppedTrimSize.
CleanupMarkers ==
    /\ k_pc = "sleep"
    /\ processing_approvals' = {}
    /\ IF Cardinality(stopped_reminders) > StoppedTrimSize
       THEN \E kept \in SUBSET stopped_reminders :
               /\ Cardinality(kept) = StoppedKept
               /\ stopped_reminders' = kept
       ELSE stopped_reminders' = stopped_reminders
    /\ k_pc' = "evict"
    /\ UNCHANGED <<pending_approvals, approval_events, db, wvars, t_pc, cvars,
                   rvars, tvars, dvars, svars, gvars, mvars, avars, hvars>>

\* api_handler.py:2049-2084: every record older than the threshold is
\* deleted, whatever its status.
CleanupEvictRecord ==
    /\ k_pc = "evict"
    /\ IF Held(aid) /\ Expired(pending_approvals[aid], aged)
       THEN /\ pending_approvals' = Without(pending_approvals, aid)
            /\ k_pc' = "evict_event"
       ELSE /\ k_pc' = "sweep"
            /\ UNCHANGED pending_approvals
    /\ UNCHANGED <<approval_events, processing_approvals, stopped_reminders, db,
                   wvars, t_pc, cvars, rvars, tvars, dvars, svars, gvars, mvars, avars, hvars>>

\* api_handler.py:2086-2087: then its event is deleted; a thread waiting on
\* the event object keeps waiting on it, and nothing sets it any more.
CleanupEvictEvent ==
    /\ k_pc = "evict_event"
    /\ approval_events' = Without(approval_events, aid)
    /\ w_orphan' = (w_orphan \/ (w_pc = "blocked" /\ aid \in DOMAIN approval_events))
    /\ k_pc' = "sweep"
    /\ UNCHANGED <<pending_approvals, processing_approvals, stopped_reminders,
                   db, w_pc, waited, memory_status, w_slept, w_row, w_result,
                   t_pc, cvars, rvars, tvars, dvars, svars, gvars, mvars, avars, hvars>>

\* api_handler.py:2093-2094: cleanup_expired_approvals; a failure of the
\* store leaves the table as it is.
CleanupSweep ==
    /\ k_pc = "sweep"
    /\ \E query_ok \in BOOLEAN :
          db' = IF query_ok THEN SweepRows(db, deadline_passed) ELSE db
    /\ k_pc' = "sleep"
    /\ UNCHANGED <<pending_approvals, approval_events, processing_approvals,
                   stopped_reminders, wvars, t_pc, cvars, rvars, tvars, dvars, svars, gvars, mvars, avars, hvars>>

cleanup_task ==
    \/ CleanupMarkers
    \/ CleanupEvictRecord
    \/ CleanupEvictEvent
    \/ CleanupSweep


\* ------------------------------------------- DatabaseService, called directly

\* Every method of DatabaseService runs inside "with self.lock"
\* (threading.RLock, database_service.py:79), so a call is one step.

\* The clients that take the advisory lock, and "system" of the deadline
\* path.
Holders == {"alice", "bob"}
Approvers == Holders \cup {"system"}

\* The ids clients pass: the id of the row, and an id that has no row.
unknown_id == "approval-x-x-0-t"
StoreIds == {aid, unknown_id}

\* The timeouts clients pass to lock_approval.
Ttls == 0..MaxTtl

\* What a call leaves alone: everything but the table and the call's record.
store_others ==
    <<pending_approvals, approval_events, processing_approvals,
      stopped_reminders, wvars, t_pc, cvars, k_pc, rvars, tvars, dvars, gvars, mvars, avars,
      hvars>>

\* The record of a call: the method, its arguments, whether the store
\* answered, what the method returned, whether the row's timeout had
\* elapsed on the store's clock when the call was made, and the row of the
\* id as the call found it (no row when the id has none).  odd is the parity
\* of the number of calls made, which tells a call from the steps of the
\* clock.
CallRecord(op, id, approver, status, ttl, query_ok, ret) ==
    [op |-> op, id |-> id, approver |-> approver, status |-> status,
     ttl |-> ttl, query_ok |-> query_ok, ret |-> ret,
     late |-> deadline_passed,
     found |-> [k \in DOMAIN db \cap {id} |-> db[k]],
     odd |-> ~s_last.odd]

\* The step is a call of the method.
StoreCall(op) == s_last'.op = op /\ s_last'.odd # s_last.odd

\* create_approval (database_service.py:207-235).
create_approval ==
    /\ \E query_ok \in BOOLEAN :
          /\ db' = InsertRows(db, aid, NewRow, query_ok)
          /\ s_last' = CallRecord("create", aid, NoValue, NoValue, 0, query_ok,
                                  InsertCode(db, aid, query_ok))
    /\ UNCHANGED store_others

\* lock_approval (database_service.py:277-353).
lock_approval(id, holder, ttl) ==
    /\ \E query_ok \in BOOLEAN :
          /\ db' = LockRows(db, id, holder, ttl, query_ok)
          /\ s_last' = CallRecord("lock", id, holder, NoValue, ttl, query_ok,
                                  LockCode(db, id, holder, query_ok))
    /\ UNCHANGED store_others

\* unlock_approval (database_service.py:355-387): True when a row was
\* updated.
unlock_approval(id) ==
    /\ \E query_ok \in BOOLEAN :
          /\ db' = IF query_ok THEN UnlockRows(db, id) ELSE db
          /\ s_last' = CallRecord("unlock", id, NoValue, NoValue, 0, query_ok,
                                  query_ok /\ id \in DOMAIN db)
    /\ UNCHANGED store_others

\* update_approval_status (database_service.py:389-494).  An exception before
\* the commit of line 466 leaves the row as it was; one after it, in the
\* query that reads the status back (470-475), leaves the row written.  Both
\* are answered with SYSTEM_ERROR (488-494).
update_approval_status(id, status, approver) ==
    /\ \E query_ok \in BOOLEAN, verify_ok \in BOOLEAN :
          /\ db' = IF query_ok
                   THEN UpdateRows(db, id, status, approver,
                                   get_user_role(approver), "decided")
                   ELSE db
          /\ s_last' = CallRecord("update", id, approver, status, 0,
                                  query_ok /\ verify_ok,
                                  IF query_ok /\ verify_ok
                                  THEN UpdateCode(db, id, approver)
                                  ELSE "SYSTEM_ERROR")
    /\ UNCHANGED store_others

\* cleanup_expired_approvals (database_service.py:517-578).
cleanup_expired_approvals ==
    /\ \E query_ok \in BOOLEAN :
          /\ db' = IF query_ok THEN SweepRows(db, deadline_passed) ELSE db
          /\ s_last' = CallRecord("sweep", NoValue, NoValue, NoValue, 0,
                                  query_ok, query_ok)
    /\ UNCHANGED store_others

\* The store's clock ticks: the locks grow older.  Past MaxTtl + 1 every
\* lock has expired, whatever its timeout.
LockAges ==
    /\ \E id \in DOMAIN db : db[id].is_locked /\ db[id].lock_age <= MaxTtl
    /\ db' = [id \in DOMAIN db |->
                 IF db[id].is_locked /\ db[id].lock_age <= MaxTtl
                 THEN [db[id] EXCEPT !.lock_age = @ + 1]
                 ELSE db[id]]
    /\ UNCHANGED <<s_last, store_others>>

\* ---------------------------------------------------------- _handle_approval

\* lock_approval is called without a timeout: the default of its signature.
DefaultTtl == MaxTtl

\* What the steps of _handle_approval leave alone, besides the variables
\* each of them names.
handle_others ==
    <<wvars, t_pc, cvars, k_pc, rvars, tvars, dvars, svars, hvars>>

\* The call returns `ret`; the finally clause of lines 2220-2222 removes the
\* marker when the call had got past setting it.
HandleReturns(ret, marked) ==
    /\ g_pc' = "done"
    /\ g_ret' = ret
    /\ processing_approvals' =
          IF marked THEN processing_approvals \ {aid} ELSE processing_approvals

\* A user presses a button of the Telegram message of the approval.
HandleCall ==
    /\ g_pc \in {"idle", "done"}
    /\ w_pc # "start"
    /\ \E req \in Requests : g_arg' = req
    /\ g_pc' = "guard"
    /\ g_ret' = NoValue
    /\ g_locked' = FALSE
    /\ UNCHANGED <<shared, g_cleaner, mvars, avars, handle_others>>

\* api_handler.py:2109-2110: the marker is tested ...
HandleGuard ==
    /\ g_pc = "guard"
    /\ IF aid \in processing_approvals
       THEN HandleReturns("in_progress", FALSE)
       ELSE /\ g_pc' = "mark"
            /\ UNCHANGED <<g_ret, processing_approvals>>
    /\ UNCHANGED <<pending_approvals, approval_events, stopped_reminders, db,
                   g_arg, g_locked, g_cleaner, mvars, avars, handle_others>>

\* api_handler.py:2112: ... and set in a later step.
HandleMark ==
    /\ g_pc = "mark"
    /\ processing_approvals' = processing_approvals \cup {aid}
    /\ g_pc' = "find"
    /\ UNCHANGED <<pending_approvals, approval_events, stopped_reminders, db,
                   g_arg, g_ret, g_locked, g_cleaner, mvars, avars, handle_others>>

\* Lines 2142-2148, on the status the call has read.
HandleStatus(found, status) ==
    IF ~found THEN HandleReturns("not_found", TRUE)
    ELSE IF status # PENDING THEN HandleReturns("already_processed", TRUE)
    ELSE /\ g_pc' = "lock"
         /\ UNCHANGED <<g_ret, processing_approvals>>

\* api_handler.py:2118, 2139-2148: the id is looked up in the records; an id
\* that is not held is read from the durable store.
HandleFind ==
    /\ g_pc = "find"
    /\ IF Held(aid)
       THEN /\ g_pc' = "read"
            /\ UNCHANGED <<g_ret, processing_approvals>>
       ELSE \E query_ok \in BOOLEAN :
               LET row == ReadRow(db, aid, query_ok)
               IN  HandleStatus(row.found, row.status)
    /\ UNCHANGED <<pending_approvals, approval_events, stopped_reminders, db,
                   g_arg, g_locked, g_cleaner, mvars, avars, handle_others>>

\* api_handler.py:2119-2148: the record is read.  The subscript of line 2119
\* on a record the cleanup thread has deleted since line 2118 raises
\* KeyError: the call ends in the handler of lines 2224-2226.
HandleRead ==
    /\ g_pc = "read"
    /\ IF Held(aid)
       THEN HandleStatus(TRUE, StatusOf(aid))
       ELSE HandleReturns("error", TRUE)
    /\ UNCHANGED <<pending_approvals, approval_events, stopped_reminders, db,
                   g_arg, g_locked, g_cleaner, mvars, avars, handle_others>>

\* api_handler.py:2155-2157: the advisory lock is taken, or the call ends.
HandleLock ==
    /\ g_pc = "lock"
    /\ \E query_ok \in BOOLEAN :
          /\ db' = LockRows(db, aid, g_arg.user, DefaultTtl, query_ok)
          /\ IF LockCode(db, aid, g_arg.user, query_ok)
             THEN /\ g_pc' = "update"
                  /\ g_locked' = TRUE
                  /\ UNCHANGED <<g_ret, processing_approvals>>
             ELSE /\ HandleReturns("locked", TRUE)
                  /\ UNCHANGED g_locked
    /\ UNCHANGED <<pending_approvals, approval_events, stopped_reminders,
                   g_arg, g_cleaner, mvars, avars, handle_others>>

\* Lines 2159-2165 without the test of result["success"].
HandleUpdateUntested ==
    /\ g_pc = "update"
    /\ \E query_ok \in BOOLEAN, verify_ok \in BOOLEAN :
          /\ db' = IF query_ok
                   THEN UpdateRows(db, aid, FinalStatus(g_arg.action),
                                   g_arg.user, get_user_role(g_arg.user),
                                   g_arg.comment)
                   ELSE db
          /\ g_pc' = "held"
          /\ UNCHANGED <<g_ret, processing_approvals>>
    /\ UNCHANGED <<pending_approvals, approval_events, stopped_reminders,
                   g_arg, g_locked, g_cleaner, mvars, avars, handle_others>>

\* api_handler.py:2159-2163 and 2217-2218: the row is updated; a refusal and
\* a failure of the store end the call.
HandleUpdate ==
    /\ g_pc = "update"
    /\ \E query_ok \in BOOLEAN, verify_ok \in BOOLEAN :
          /\ db' = IF query_ok
                   THEN UpdateRows(db, aid, FinalStatus(g_arg.action),
                                   g_arg.user, get_user_role(g_arg.user),
                                   g_arg.comment)
                   ELSE db
          /\ IF query_ok /\ verify_ok
                /\ UpdateCode(db, aid, g_arg.user) = "SUCCESS"
             THEN /\ g_pc' = "held"
                  /\ UNCHANGED <<g_ret, processing_approvals>>
             ELSE HandleReturns("update_failed", TRUE)
    /\ UNCHANGED <<pending_approvals, approval_events, stopped_reminders,
                   g_arg, g_locked, g_cleaner, mvars, avars, handle_others>>

\* api_handler.py:2167: is the id held?
HandleHeld ==
    /\ g_pc = "held"
    /\ g_pc' = IF Held(aid) THEN "w_status" ELSE "cancel"
    /\ UNCHANGED <<shared, g_arg, g_ret, g_locked, g_cleaner, mvars, avars, handle_others>>

\* A store into the record of an id the cleanup thread has deleted since
\* line 2167 raises KeyError: the call ends in the handler of lines
\* 2224-2226.
HandleWrite(at, next, rec) ==
    /\ g_pc = at
    /\ IF Held(aid)
       THEN /\ pending_approvals' = [pending_approvals EXCEPT ![aid] = rec]
            /\ g_pc' = next
            /\ UNCHANGED <<g_ret, processing_approvals>>
       ELSE /\ HandleReturns("error", TRUE)
            /\ UNCHANGED pending_approvals
    /\ UNCHANGED <<approval_events, stopped_reminders, db, g_arg, g_locked,
                   g_cleaner, mvars, avars, handle_others>>

\* api_handler.py:2168.
HandleWriteStatus ==
    HandleWrite("w_status", "w_rest",
                [pending_approvals[aid] EXCEPT
                    !.status = FinalStatus(g_arg.action)])

\* api_handler.py:2169-2172.
HandleWriteRest ==
    HandleWrite("w_rest", "cancel",
                [pending_approvals[aid] EXCEPT
                    !.approver = g_arg.user,
                    !.approver_role = get_user_role(g_arg.user),
                    !.comment = g_arg.comment,
                    !.updated_at = <<"handle_approval", 0>>])

\* api_handler.py:2177: _cancel_reminder_timer.
HandleCancel ==
    /\ g_pc = "cancel"
    /\ stopped_reminders' = CancelStopped(stopped_reminders, aid)
    /\ pending_approvals' = CancelRecords(pending_approvals, aid)
    /\ reminder_timers' = CancelTimers(reminder_timers, aid)
    /\ UNCHANGED avars
    /\ g_pc' = "event"
    /\ UNCHANGED <<approval_events, processing_approvals, db, g_arg, g_ret,
                   g_locked, g_cleaner, handle_others>>

\* api_handler.py:2180-2198: the id's event is set; when the id has none, a
\* new event is made, set and registered.  The thread that will delete the
\* event is started.
HandleEvent ==
    /\ g_pc = "event"
    /\ approval_events' = With(approval_events, aid, TRUE)
    /\ g_cleaner' = "sleep"
    /\ g_pc' = "unlock"
    /\ UNCHANGED <<pending_approvals, processing_approvals, stopped_reminders,
                   db, g_arg, g_ret, g_locked, mvars, avars, handle_others>>

\* api_handler.py:2200-2216: the lock is released and the call answers
\* success.
HandleUnlock ==
    /\ g_pc = "unlock"
    /\ \E query_ok \in BOOLEAN :
          db' = IF query_ok THEN UnlockRows(db, aid) ELSE db
    /\ HandleReturns("ok", TRUE)
    /\ UNCHANGED <<pending_approvals, approval_events, stopped_reminders,
                   g_arg, g_locked, g_cleaner, mvars, avars, handle_others>>

\* cleanup_after_telegram (api_handler.py:2192-2197): two seconds after the
\* event was set, it is deleted.
cleanup_after_telegram ==
    /\ g_cleaner = "sleep"
    /\ approval_events' = Without(approval_events, aid)
    /\ g_cleaner' = "done"
    /\ UNCHANGED <<pending_approvals, processing_approvals, stopped_reminders,
                   db, g_pc, g_arg, g_ret, g_locked, mvars, avars, handle_others>>

handle_approval ==
    \/ HandleCall
    \/ HandleGuard
    \/ HandleMark
    \/ HandleFind
    \/ HandleRead
    \/ HandleLock
    \/ HandleUpdate
    \/ HandleHeld
    \/ HandleWriteStatus
    \/ HandleWriteRest
    \/ HandleCancel
    \/ HandleEvent
    \/ HandleUnlock
\* ----------------------------------------------------------- reminder_task

\* The stop conditions the thread polls: the stop set, the in-memory status
\* and the record's mark (api_handler.py:1883-1898, 1914-1929, 1967-1971).
StopSeen ==
    \/ aid \in stopped_reminders
    \/ Held(aid) /\ StatusOf(aid) # PENDING
    \/ Held(aid) /\ pending_approvals[aid].reminder_stopped

\* The id has left pending, or its reminder schedule was cancelled.
Resolved ==
    \/ aid \in stopped_reminders
    \/ Held(aid) /\ StatusOf(aid) # PENDING

\* api_handler.py:1879-1898 and 1964-1973: while it waits for the next
\* reminder the thread polls the stop conditions and ends on one of them.
ReminderPollStops ==
    /\ r_pc \in {"first_wait", "wait"}
    /\ StopSeen
    /\ r_pc' = "done"
    /\ UNCHANGED <<shared, wvars, t_pc, cvars, k_pc, count, h_reminders,
                   tvars, dvars, svars, gvars, mvars, avars, hvars>>

\* api_handler.py:1901-1908: in its first wait the thread also reads the
\* durable status now and then, and ends when the row is resolved.
ReminderPollRow ==
    /\ r_pc = "first_wait"
    /\ \E query_ok \in BOOLEAN :
          LET row == ReadRow(db, aid, query_ok)
          IN  /\ row.found
              /\ row.status # PENDING
    /\ r_pc' = "done"
    /\ UNCHANGED <<shared, wvars, t_pc, cvars, k_pc, count, h_reminders,
                   tvars, dvars, svars, gvars, mvars, avars, hvars>>

\* The five minutes of a wait are over.
ReminderWaitOver ==
    /\ r_pc \in {"first_wait", "wait"}
    /\ r_pc' = "check"
    /\ UNCHANGED <<shared, wvars, t_pc, cvars, k_pc, count, h_reminders,
                   tvars, dvars, svars, gvars, mvars, avars, hvars>>

\* The checks of lines 1914-1929 under a loop that has no bound.
ReminderCheckUnbounded ==
    /\ r_pc = "check"
    /\ r_pc' = IF StopSeen THEN "done" ELSE "row"
    /\ UNCHANGED <<shared, wvars, t_pc, cvars, k_pc, count, h_reminders,
                   tvars, dvars, svars, gvars, mvars, avars, hvars>>

\* api_handler.py:1910-1929: the loop test and the in-memory stop checks.
ReminderCheck ==
    /\ r_pc = "check"
    /\ r_pc' = IF count >= max_reminders \/ StopSeen THEN "done" ELSE "row"
    /\ UNCHANGED <<shared, wvars, t_pc, cvars, k_pc, count, h_reminders,
                   tvars, dvars, svars, gvars, mvars, avars, hvars>>

\* api_handler.py:1932-1938: the durable row is read; the thread ends when
\* get_approval gives None or a row that is not pending.
ReminderRow ==
    /\ r_pc = "row"
    /\ \E query_ok \in BOOLEAN :
          LET row == ReadRow(db, aid, query_ok)
          IN  r_pc' = IF row.found /\ row.status = PENDING THEN "send" ELSE "done"
    /\ UNCHANGED <<shared, wvars, t_pc, cvars, k_pc, count, h_reminders,
                   tvars, dvars, svars, gvars, mvars, avars, hvars>>

\* Lines 1944-1973 without the increment of line 1941, and nothing sent.
ReminderSendUncounted ==
    /\ r_pc = "send"
    /\ r_pc' = "wait"
    /\ UNCHANGED <<shared, wvars, t_pc, cvars, k_pc, count, h_reminders,
                   tvars, dvars, svars, gvars, mvars, avars, hvars>>

\* api_handler.py:1944-1962: the count is incremented and the reminder is
\* sent with it as its reminder_count.
ReminderSend ==
    /\ r_pc = "send"
    /\ count' = count + 1
    /\ h_reminders' = Append(h_reminders, count')
    /\ r_pc' = IF count' < max_reminders THEN "wait" ELSE "check"
    /\ UNCHANGED <<shared, wvars, t_pc, cvars, k_pc, tvars, dvars, svars, gvars, mvars, avars, hvars>>

reminder_task ==
    \/ ReminderPollStops
    \/ ReminderPollRow
    \/ ReminderWaitOver
    \/ ReminderCheck
    \/ ReminderRow
    \/ ReminderSend

\* ------------------------------------------------- _cancel_reminder_timer

\* _cancel_reminder_timer (api_handler.py:1984-2022) called on its own, for
\* an id that has a schedule or has none.  Every exception is caught by the
\* handler of lines 2021-2022.
cancel_reminder_timer(id) ==
    /\ stopped_reminders' = CancelStopped(stopped_reminders, id)
    /\ pending_approvals' = CancelRecords(pending_approvals, id)
    /\ reminder_timers' = CancelTimers(reminder_timers, id)
    /\ UNCHANGED avars
    /\ UNCHANGED <<approval_events, processing_approvals, db, wvars, t_pc,
                   cvars, k_pc, rvars, tvars, dvars, svars, gvars, hvars>>

\* ------------------------------------------------ _send_build_notification

\* The id _send_build_notification derives from project, env, build number
\* and the second of the notification (api_handler.py:2309).
bid == "build-p-e-1-t"

\* The build status a Jenkins job posts to /api/build/notify.
BuildResults == {"SUCCESS", "FAILURE", "unstable"}

\* str.upper on the build statuses.
Upper(s) == IF s = "unstable" THEN "UNSTABLE" ELSE s

\* api_handler.py:2308-2329: for a failed or unstable build the build's
\* data is stored in pending_approvals under the build id, with the status
\* as posted.
BuildNotify ==
    /\ \E status \in BuildResults :
          pending_approvals' =
              IF Upper(status) \in {"FAILURE", "UNSTABLE"}
              THEN With(pending_approvals, bid, [status |-> status])
              ELSE pending_approvals
    /\ UNCHANGED <<approval_events, processing_approvals, stopped_reminders, db,
                   wvars, t_pc, cvars, k_pc, rvars, tvars, dvars, svars, gvars, mvars, avars, hvars>>

\* ---------------------------------------------------------- specifications

\* The decision race: one waiting request, NumCallers concurrent
\* submissions and the timeout thread.  No row is resolved without the
\* cleanup thread, so the branch of api_handler.py:615-641 is not part of it.
NextDecide ==
    \/ Create
    \/ wait_loop
    \/ deadline_path
    \/ \E c \in Callers : process_approval_internal(c)
    \/ timeout_handler
    \/ DeadlinePasses

SpecDecide == Init /\ [][NextDecide]_vars

\* The waiting request with one submission, the timeout thread and the
\* cleanup thread.
NextWait ==
    \/ approval_wait
    \/ process_approval_internal(1)
    \/ timeout_handler
    \/ cleanup_task
    \/ DeadlinePasses
    \/ Ages

SpecWait == Init /\ [][NextWait]_vars

\* The request thread is scheduled as long as it has a step to take; no
\* other thread, and no passage of time, is required to happen.
FairSpecWait == SpecWait /\ WF_vars(approval_wait)

\* The reminder thread with one submission, the timeout thread and the
\* durable sweep of the cleanup thread.
NextRemind ==
    \/ Create
    \/ process_approval_internal(1)
    \/ timeout_handler
    \/ reminder_task
    \/ cleanup_task
    \/ DeadlinePasses
    \/ Ages

SpecRemind == Init /\ [][NextRemind]_vars

\* The reminder thread is a daemon thread that only sleeps, tests and sends:
\* whenever it has a step to take, it takes it in the end.
FairSpecRemind == SpecRemind /\ WF_vars(reminder_task)

\* The waiting request with its threads, and the build notifications of
\* Jenkins jobs.  (cleanup_task deletes an old build record as it deletes an
\* old approval record; that deletion is left out.)
NextBuild ==
    \/ NextWait
    \/ BuildNotify

SpecBuild == Init /\ [][NextBuild]_vars


\* Two requests of approval_wait deriving one id, with the decisions, the
\* timeout and the cleanup that can meet the record (no wait loop).
NextCreate ==
    \/ Create
    \/ CreateDuplicate
    \/ process_approval_internal(1)
    \/ timeout_handler
    \/ cleanup_task
    \/ DeadlinePasses
    \/ Ages

SpecCreate == Init /\ [][NextCreate]_vars

\* Two submissions for the id, with the timeout thread and the cleanup
\* thread that can resolve or delete the record under them.
TwoCallers == {c \in Callers : c <= 2}

NextResubmit ==
    \/ Create
    \/ \E c \in TwoCallers : process_approval_internal(c)
    \/ timeout_handler
    \/ cleanup_task
    \/ DeadlinePasses
    \/ Ages

SpecResubmit == Init /\ [][NextResubmit]_vars

\* The sweep of cleanup_task as a function of the registry it finds: a
\* registry that holds a record of the id with any created_at and any
\* status, with or without its event, and the time that passes.
InitSweep ==
    /\ \E created_at \in CreatedAtInputs,
          status \in {PENDING, APPROVED, REJECTED, TIMEOUT} :
          pending_approvals =
              [id \in {aid} |-> [NewRecord EXCEPT !.created_at = created_at,
                                                  !.status = status]]
    /\ \E events \in {{}, {aid}}, flag \in BOOLEAN :
          approval_events = [id \in events |-> flag]
    /\ processing_approvals = {}
    /\ stopped_reminders = {}
    /\ db = [id \in {aid} |-> NewRow]
    /\ w_pc = "start"
    /\ waited = 0
    /\ memory_status = NoValue
    /\ w_slept = 0
    /\ w_orphan = FALSE
    /\ w_row = NoRow
    /\ w_result = NoResult
    /\ t_pc = "unborn"
    /\ c_pc = [c \in Callers |-> "idle"]
    /\ c_arg = [c \in Callers |-> NoArg]
    /\ c_ret = [c \in Callers |-> NoValue]
    /\ k_pc = "sleep"
    /\ r_pc = "unborn"
    /\ count = 0
    /\ dup_pc = "idle"
    /\ s_last = NoCall
    /\ g_pc = "idle"
    /\ g_arg = NoArg
    /\ g_ret = NoValue
    /\ g_locked = FALSE
    /\ g_cleaner = "unborn"
    /\ reminder_timers = {}
    /\ approval_cache = <<>>
    /\ rejected_builds_cache = <<>>
    /\ m_last = NoManagerCall
    /\ deadline_passed = FALSE
    /\ aged = FALSE
    /\ h_applied_at_return = {}
    /\ h_signalled_blocked = {}
    /\ h_early_calls = {}
    /\ h_slices = 0
    /\ h_at_call = [c \in Callers |-> NoValue]
    /\ h_unwoken = {}
    /\ h_reminders = << >>

NextSweep ==
    \/ cleanup_task
    \/ DeadlinePasses
    \/ Ages

SpecSweep == InitSweep /\ [][NextSweep]_vars

\* The durable store used through its own methods: a row is created, clients
\* lock, unlock and decide it, the sweep runs, time passes.
NextStore ==
    \/ create_approval
    \/ \E id \in StoreIds, holder \in Holders, ttl \in Ttls :
          lock_approval(id, holder, ttl)
    \/ \E id \in StoreIds : unlock_approval(id)
    \/ \E id \in StoreIds, status \in {APPROVED, REJECTED, TIMEOUT},
          approver \in Approvers :
          update_approval_status(id, status, approver)
    \/ cleanup_expired_approvals
    \/ LockAges
    \/ DeadlinePasses

SpecStore == Init /\ [][NextStore]_vars

\* A Telegram button handled by _handle_approval, next to a submission
\* through process_approval_internal, the cleanup thread and the clocks.
NextHandle ==
    \/ Create
    \/ handle_approval
    \/ cleanup_after_telegram
    \/ process_approval_internal(1)
    \/ cleanup_task
    \/ LockAges
    \/ DeadlinePasses
    \/ Ages

SpecHandle == Init /\ [][NextHandle]_vars

\* Cancellations of the reminder schedule at any moment of an approval's
\* life, for its id and for an id that has no schedule.
NextCancel ==
    \/ Create
    \/ \E id \in StoreIds : cancel_reminder_timer(id)
    \/ process_approval_internal(1)
    \/ timeout_handler
    \/ DeadlinePasses

SpecCancel == Init /\ [][NextCancel]_vars


\* ---------------------------------------------------------- ApprovalManager

\* The users of config/users.json that the permission service has loaded
\* (permission_service.py:25-79): one who may approve, one who may not, and
\* an administrator with no permission listed.
users_config ==
    [alice |-> [permissions |-> {"approve", "reject"}, is_admin |-> FALSE],
     bob   |-> [permissions |-> {"view"}, is_admin |-> FALSE],
     root  |-> [permissions |-> {}, is_admin |-> TRUE]]

\* The names a Telegram user can carry; mallory is in no configuration.
Usernames == DOMAIN users_config \cup {"mallory"}

\* permission_service.py:187-203, with get_user_info of lines 140-165: an
\* unknown user has no permission, a known one has those listed, and an
\* administrator has every one.  Every exception is caught and answers False.
check_permission(username, permission) ==
    /\ username \in DOMAIN users_config
    /\ \/ permission \in users_config[username].permissions
       \/ users_config[username].is_admin

\* permission_service.py:247-249
check_approver_permission(username) == check_permission(username, "approve")

\* The one job and environment, and its build number as the pipeline may
\* write it: with and without the leading '#'.  A string is the sequence of
\* its characters.
JobName == "job"
Environment == "test"
BuildNumbers == {<<"7">>, <<"#", "7">>}

\* approval.py:29-32: "{}-{}-{}".format(job_name, build_number, environment)
approval_id(job_name, build_number, environment) ==
    <<job_name, build_number, environment>>

\* str.lstrip('#')
RECURSIVE lstrip(_)
lstrip(s) == IF s # <<>> /\ Head(s) = "#" THEN lstrip(Tail(s)) ELSE s

\* approval.py:94-101: the two keys a rejection is recorded under.
rejection_keys(job_name, build_number, environment) ==
    {approval_id(job_name, lstrip(build_number), environment),
     approval_id(job_name, <<"#">> \o lstrip(build_number), environment)}

\* The ids a Telegram command can name: those of the builds, and one that
\* no build has.
ManagerIds ==
    {approval_id(JobName, b, Environment) : b \in BuildNumbers}
        \cup {approval_id(JobName, <<"8">>, Environment)}

\* The actions process_approval can be given; "approve" is none it knows.
ManagerActions == {"approved", "rejected", "approve"}

\* approval.py:14-27: a new Approval.
NewApproval(job_name, build_number, environment) ==
    [job_name |-> job_name, build_number |-> build_number,
     environment |-> environment, status |-> PENDING,
     processed_by |-> NoValue, should_notify_build_result |-> FALSE]

\* approval.py:34-39
approve(approval, username) ==
    [approval EXCEPT !.status = APPROVED, !.processed_by = username]

\* approval.py:41-46
reject(approval, username) ==
    [approval EXCEPT !.status = REJECTED, !.processed_by = username]

\* approval_manager.py:102-117: the rejection is stored under each of its
\* keys.
record_build_rejection(cache, job_name, build_number, environment, by) ==
    LET keys == rejection_keys(job_name, build_number, environment) IN
    [k \in DOMAIN cache \cup keys |->
        IF k \in keys THEN by ELSE cache[k]]

\* What process_approval answers (approval_manager.py:50, 54, 58, 68, 71).
NotExists == "approval id does not exist"
AlreadyHandled == "approval already processed"
NoPermission == "permission denied"
InvalidAction == "invalid action"
Handled == "processed"

manager_others ==
    <<shared, wvars, t_pc, cvars, k_pc, rvars, tvars, dvars, svars, gvars,
      mvars, hvars>>

\* The call just made, with the caches as it found them.
ManagerCall(op, id, action, username, ok, message) ==
    [op |-> op, id |-> id, action |-> action, username |-> username,
     ok |-> ok, message |-> message, cache |-> approval_cache,
     rejected |-> rejected_builds_cache, odd |-> ~m_last.odd]

\* ApprovalManager.create_approval (approval_manager.py:23-38): the new
\* Approval takes the place of any the cache held under the id.
manager_create_approval(build_number) ==
    LET approval == NewApproval(JobName, build_number, Environment)
        id == approval_id(JobName, build_number, Environment)
    IN  /\ approval_cache' =
              [k \in DOMAIN approval_cache \cup {id} |->
                  IF k = id THEN approval ELSE approval_cache[k]]
        /\ m_last' = ManagerCall("create", id, NoValue, NoValue, TRUE, id)
        /\ UNCHANGED <<rejected_builds_cache, manager_others>>

\* process_approval with the permission test of lines 57-58 left out.
process_approval_unpermitted(id, action, username, proceeds) ==
    LET answer(ok, message) ==
            m_last' = ManagerCall("process", id, action, username, ok, message)
    IN  /\ IF id \notin DOMAIN approval_cache
           THEN /\ answer(FALSE, NotExists)
                /\ UNCHANGED <<approval_cache, rejected_builds_cache>>
           ELSE IF approval_cache[id].status # PENDING
           THEN /\ answer(FALSE, AlreadyHandled)
                /\ UNCHANGED <<approval_cache, rejected_builds_cache>>
           ELSE IF action = "approved"
           THEN /\ approval_cache' =
                      [approval_cache EXCEPT ![id] =
                          [approve(@, username) EXCEPT
                              !.should_notify_build_result = proceeds]]
                /\ answer(TRUE, Handled)
                /\ UNCHANGED rejected_builds_cache
           ELSE IF action = "rejected"
           THEN /\ approval_cache' =
                      [approval_cache EXCEPT ![id] = reject(@, username)]
                /\ rejected_builds_cache' =
                      record_build_rejection(rejected_builds_cache,
                          approval_cache[id].job_name,
                          approval_cache[id].build_number,
                          approval_cache[id].environment, username)
                /\ answer(TRUE, Handled)
           ELSE /\ answer(FALSE, InvalidAction)
                /\ UNCHANGED <<approval_cache, rejected_builds_cache>>
        /\ UNCHANGED manager_others

\* ApprovalManager.process_approval (approval_manager.py:44-75), one call:
\* the Telegram dispatcher that makes it runs its handlers one at a time.
\* `proceeds` is what continue_build answers (jenkins_service.py:51-67).
\* continue_build, abort_build (jenkins_service.py:69-85),
\* _record_build_rejection and check_permission each catch every exception
\* of their own, so no statement of the try block raises and the except
\* clause of lines 73-75 answers no call.
process_approval(id, action, username, proceeds) ==
    LET answer(ok, message) ==
            m_last' = ManagerCall("process", id, action, username, ok, message)
    IN  /\ IF id \notin DOMAIN approval_cache
           THEN /\ answer(FALSE, NotExists)
                /\ UNCHANGED <<approval_cache, rejected_builds_cache>>
           ELSE IF approval_cache[id].status # PENDING
           THEN /\ answer(FALSE, AlreadyHandled)
                /\ UNCHANGED <<approval_cache, rejected_builds_cache>>
           ELSE IF ~check_approver_permission(username)
           THEN /\ answer(FALSE, NoPermission)
                /\ UNCHANGED <<approval_cache, rejected_builds_cache>>
           ELSE IF action = "approved"
           THEN /\ approval_cache' =
                      [approval_cache EXCEPT ![id] =
                          [approve(@, username) EXCEPT
                              !.should_notify_build_result = proceeds]]
                /\ answer(TRUE, Handled)
                /\ UNCHANGED rejected_builds_cache
           ELSE IF action = "rejected"
           THEN /\ approval_cache' =
                      [approval_cache EXCEPT ![id] = reject(@, username)]
                /\ rejected_builds_cache' =
                      record_build_rejection(rejected_builds_cache,
                          approval_cache[id].job_name,
                          approval_cache[id].build_number,
                          approval_cache[id].environment, username)
                /\ answer(TRUE, Handled)
           ELSE /\ answer(FALSE, InvalidAction)
                /\ UNCHANGED <<approval_cache, rejected_builds_cache>>
        /\ UNCHANGED manager_others

\* The ApprovalManager alone: approvals are created and Telegram commands
\* name them.
NextManager ==
    \/ \E b \in BuildNumbers : manager_create_approval(b)
    \/ \E id \in ManagerIds, action \in ManagerActions,
          username \in Usernames, proceeds \in BOOLEAN :
          process_approval(id, action, username, proceeds)

SpecManager == Init /\ [][NextManager]_vars
\* ------------------------------------------------------------------ claims

\* The approval was created: its row exists.
Created == aid \in DOMAIN db

\* What the record holds of a decision.
RecordFields ==
    <<pending_approvals[aid].status, pending_approvals[aid].approver,
      pending_approvals[aid].approver_role, pending_approvals[aid].comment>>

\* What call c means to store.
DecisionOf(c) ==
    <<FinalStatus(c_arg[c].action), c_arg[c].user,
      get_user_role(c_arg[c].user), c_arg[c].comment>>

\* What the timeout thread means to store.
TimeoutDecision == <<TIMEOUT, "system", "system", "timeout">>

\* Call c is the only submission there has been.
OnlyCall(c) == c_pc[c] # "idle" /\ \A d \in Callers \ {c} : c_pc[d] = "idle"

\* The request thread is in its wait loop: it has not reached the deadline.
InWaitLoop == w_pc \in {"head", "build", "event", "blocked", "post"}

\* The request thread was not refused its read of the durable store: it
\* has left the loop before the deadline, or was given the row.
StoreAnswered == waited < max_wait_seconds \/ w_row.found

\* C1: of the concurrent submissions for one pending id, at most one is told
\* success.
C1_AtMostOneApplied == Cardinality(AppliedCalls) <= 1

\* C2: once every submission has returned, with the request thread still in
\* its loop and the timeout thread asleep, the record holds the status,
\* approver, role and comment of a submission that was told success.
C2_RecordIsTheWinners ==
    ( /\ \A c \in Callers : c_pc[c] = "done"
      /\ AppliedCalls # {}
      /\ InWaitLoop
      /\ t_pc = "sleep"
      /\ Held(aid) )
    => \E c \in AppliedCalls : RecordFields = DecisionOf(c)

\* A writer is between its store of the status and its last store.
Writing ==
    \/ t_pc \in {"w_approver", "w_rest"}
    \/ \E c \in Callers : c_pc[c] \in {"w_approver", "w_rest"}

\* C3: the status of a record leaves pending only for approved, rejected or
\* timeout; once it is not pending no step changes it, and once the writer
\* of the transition has finished no step changes the approver.
C3_StatusFinal ==
    [][ (Held(aid) /\ aid \in DOMAIN pending_approvals')
        => /\ pending_approvals'[aid].status
                \in {pending_approvals[aid].status, APPROVED, REJECTED, TIMEOUT}
           /\ (StatusOf(aid) # PENDING
               => pending_approvals'[aid].status = pending_approvals[aid].status)
           /\ (StatusOf(aid) # PENDING /\ ~Writing
               => pending_approvals'[aid].approver = pending_approvals[aid].approver)
      ]_vars

C5_WokenReturnsDecision ==
    \A c \in Callers :
        ( /\ w_pc = "done"
          /\ h_signalled_blocked = {c}
          /\ OnlyCall(c)
          /\ t_pc = "sleep"
          /\ StoreAnswered )
        => /\ w_result.result = FinalStatus(c_arg[c].action)
           /\ w_result.approver = c_arg[c].user

\* C6: when the only submission there is was told success before the request
\* returned, the timeout thread is asleep and the durable store has answered
\* every read, the request has returned that submission's status and user.
C6_ReturnsAppliedDecision ==
    \A c \in Callers :
        ( /\ w_pc = "done"
          /\ h_applied_at_return = {c}
          /\ OnlyCall(c)
          /\ t_pc = "sleep"
          /\ StoreAnswered )
        => /\ w_result.result = FinalStatus(c_arg[c].action)
           /\ w_result.approver = c_arg[c].user

\* C7: once the timeout thread and the only submission there is have both
\* finished, with the request thread still in its loop, the record holds
\* the four fields of the submission or the four fields of the timeout.
C7_OneWriter ==
    \A c \in Callers :
        ( /\ OnlyCall(c)
          /\ c_pc[c] = "done"
          /\ t_pc = "done"
          /\ InWaitLoop
          /\ Held(aid) )
        => RecordFields \in {DecisionOf(c), TimeoutDecision}

\* C8: once the id has left pending in memory, or its reminders were
\* cancelled, no reminder is sent.
C8_NoReminderOnceResolved == [][Resolved => count' = count]_vars

\* C9: when every submission was issued after the request returned, the
\* request returned timeout, and the only submission there is, once it has
\* returned, was told already processed and the status is timeout.
C9_TimeoutIsFinal ==
    \A c \in Callers :
        ( /\ Created
          /\ w_pc = "done"
          /\ h_early_calls = {}
          /\ OnlyCall(c)
          /\ c_pc[c] = "done"
          /\ Held(aid) )
        => /\ w_result.result = TIMEOUT
           /\ c_ret[c] = "already_processed"
           /\ StatusOf(aid) = TIMEOUT

\* C10: the request of a created approval returns approved, rejected or
\* timeout.
C10_ResultIsAStatus ==
    (Created /\ w_pc = "done") => w_result.result \in {APPROVED, REJECTED, TIMEOUT}

\* C11: once the only submission there is was told success, with the request
\* thread still in its loop and the timeout thread asleep, the durable row
\* is not left as timeout while the record says approved or rejected.
C11_StoresAgree ==
    \A c \in Callers :
        ( /\ OnlyCall(c)
          /\ c_ret[c] = "ok"
          /\ InWaitLoop
          /\ t_pc = "sleep"
          /\ Held(aid)
          /\ StatusOf(aid) \in {APPROVED, REJECTED} )
        => db[aid].status # TIMEOUT

\* C12: every step that takes the status of the record away from pending is
\* the status store of process_approval_internal.
C12_SingleStatusWriter ==
    [][ ( /\ Held(aid)
          /\ StatusOf(aid) = PENDING
          /\ aid \in DOMAIN pending_approvals'
          /\ pending_approvals'[aid].status # PENDING )
        => \E c \in Callers : CallWriteStatus(c)
      ]_vars

\* permission_service.get_project_owners: the users configured as owners of
\* the approval's project.
ProjectOwners == {"alice"}

\* The user may decide the approval: an owner of its project.
Authorized(u) == u \in ProjectOwners

\* C13: a submission is told success only when its user is an authorized
\* decision-maker of the approval.
C13_OnlyAuthorizedApplied ==
    \A c \in AppliedCalls : Authorized(c_arg[c].user)

\* C14, as amended: the record of an approval has status pending, approved,
\* rejected or timeout.
C14_ApprovalStatusDomain ==
    Held(aid) => StatusOf(aid) \in {PENDING, APPROVED, REJECTED, TIMEOUT}

\* C14's case: a submission has stored its status in the record.
C14_Witness ==
    /\ Held(aid)
    /\ StatusOf(aid) \in {APPROVED, REJECTED}
    /\ AppliedCalls # {}

\* C14, as stated: every record of pending_approvals has status pending,
\* approved, rejected or timeout.
C14_StatusDomain ==
    \A id \in DOMAIN pending_approvals :
        pending_approvals[id].status \in {PENDING, APPROVED, REJECTED, TIMEOUT}


\* C15: approval ids are unique. A creation request whose derived id already
\* has a record ends in an error, never in a second successful creation, and
\* the step leaves the existing in-memory record, its event and its durable
\* row as they were.
C15_DuplicateCreationFails ==
    [][ (dup_pc = "idle" /\ dup_pc' # "idle")
            => /\ dup_pc' = "error"
               /\ UNCHANGED <<pending_approvals, approval_events, db>> ]_vars

C15_Witness ==
    /\ dup_pc = "error"
    /\ Held(aid)
    /\ StatusOf(aid) = APPROVED
    /\ approval_events[aid]

\* C16: the deadline of an approval is fixed at creation. No step of a
\* decision submission, of the reminder thread, of the timeout thread or of
\* the cleanup thread changes expires_at or timeout_minutes of the in-memory
\* record, or timeout_seconds of the durable row.
C16_DeadlineFixed ==
    [][ /\ (Held(aid) /\ aid \in DOMAIN pending_approvals')
            => /\ pending_approvals'[aid].expires_at
                      = pending_approvals[aid].expires_at
               /\ pending_approvals'[aid].timeout_minutes
                      = pending_approvals[aid].timeout_minutes
        /\ (aid \in DOMAIN db /\ aid \in DOMAIN db')
            => db'[aid].timeout_seconds = db[aid].timeout_seconds ]_vars

C16_Witness ==
    /\ count >= 1
    /\ Held(aid)
    /\ StatusOf(aid) = TIMEOUT
    /\ pending_approvals[aid].expires_at = NewRecord.expires_at
    /\ aid \in DOMAIN db
    /\ db[aid].status = TIMEOUT
    /\ db[aid].timeout_seconds = NewRow.timeout_seconds

\* C17: the reminder count never decreases and never exceeds max_reminders;
\* at most max_reminders reminders are sent for the approval, the first
\* with count 1 and each later one with a count one greater than the one
\* before it.
C17_ReminderCountCapped ==
    /\ [](/\ count <= max_reminders
          /\ Len(h_reminders) <= max_reminders
          /\ \A i \in 1..Len(h_reminders) : h_reminders[i] = i)
    /\ [][count' >= count]_vars

C17_Witness ==
    /\ r_pc = "done"
    /\ count = max_reminders
    /\ Len(h_reminders) = max_reminders

\* The fields of a record that a decision writes (api_handler.py:118-122).
DecisionFields(r) ==
    <<r.status, r.approver, r.approver_role, r.comment, r.updated_at>>

\* Call c was issued when the record of the id was held and not pending.
LateCall(c) == h_at_call[c] \in {APPROVED, REJECTED, TIMEOUT}

\* Call c has set the marker and not yet returned (api_handler.py:71-166).
InFlight(c) == c_pc[c] \notin {"idle", "guard", "mark", "done"}

\* The step is a step of call c.
CallStep(c) == c_pc'[c] # c_pc[c]

\* No step of a call issued on a record that is no longer pending changes
\* the decision fields of the record.
LateCallsWriteNothing ==
    [][ \A c \in Callers :
          (LateCall(c) /\ CallStep(c) /\ Held(aid)
              /\ aid \in DOMAIN pending_approvals')
          => DecisionFields(pending_approvals'[aid])
                 = DecisionFields(pending_approvals[aid]) ]_vars

\* C18 as stated: a submission on an id whose status is no longer pending
\* returns the already-processed failure, and leaves status, approver,
\* approver_role, comment and updated_at of the record as they were.
C18_AlreadyProcessed ==
    /\ [](\A c \in Callers :
            (LateCall(c) /\ c_pc[c] = "done") => c_ret[c] = "already_processed")
    /\ LateCallsWriteNothing

\* C18 as the code has it: such a submission returns a failure, which is
\* the already-processed one unless another submission holds the marker
\* (in progress) or the cleanup thread deletes the record during the call
\* (not found, or the error of the KeyError handler); it never stores into
\* the record's decision fields.
C18_LateCallFails ==
    /\ [](\A c \in Callers :
            (LateCall(c) /\ c_pc[c] = "done")
                => c_ret[c] \in {"already_processed", "in_progress",
                                 "not_found", "error"})
    /\ [][ \A c \in Callers :
              (LateCall(c) /\ c_ret'[c] = "in_progress" /\ CallStep(c))
                  => \E o \in Callers \ {c} : InFlight(o) ]_vars
    /\ [][ \A c \in Callers :
              (LateCall(c) /\ c_ret'[c] \in {"not_found", "error"}
                  /\ CallStep(c))
                  => ~Held(aid) ]_vars
    /\ LateCallsWriteNothing

C18_Witness ==
    \E c \in Callers :
        /\ LateCall(c)
        /\ c_pc[c] = "done"
        /\ c_ret[c] = "already_processed"
        /\ Held(aid)
        /\ StatusOf(aid) = h_at_call[c]

\* Call c was issued when the registry held no record of the id.
AbsentCall(c) == h_at_call[c] = "absent"

\* No step of a call issued on an id without a record changes the records
\* or the events: none is created, none is modified.
AbsentCallsCreateNothing ==
    [][ \A c \in Callers :
          (AbsentCall(c) /\ CallStep(c))
          => UNCHANGED <<pending_approvals, approval_events>> ]_vars

\* C19 as stated: a submission for an id that is not in the registry
\* returns the not-found failure, creates no record and no event for the id
\* and leaves the records as they were.
C19_NotFound ==
    /\ [](\A c \in Callers :
            (AbsentCall(c) /\ c_pc[c] = "done") => c_ret[c] = "not_found")
    /\ AbsentCallsCreateNothing

\* C19 as the code has it: the failure is the not-found one unless another
\* submission for the id holds the marker, when it is the in-progress one.
C19_AbsentCallFails ==
    /\ [](\A c \in Callers :
            (AbsentCall(c) /\ c_pc[c] = "done")
                => c_ret[c] \in {"not_found", "in_progress"})
    /\ [][ \A c \in Callers :
              (AbsentCall(c) /\ c_ret'[c] = "in_progress" /\ CallStep(c))
                  => \E o \in Callers \ {c} : InFlight(o) ]_vars
    /\ AbsentCallsCreateNothing

C19_Witness ==
    \E c \in Callers :
        /\ AbsentCall(c)
        /\ c_pc[c] = "done"
        /\ c_ret[c] = "not_found"
        /\ ~Held(aid)
        /\ aid \notin DOMAIN approval_events

\* The approval was created and the registry no longer holds its record.
Evicted == t_pc # "unborn" /\ ~Held(aid)

\* No step deletes a durable row, the step that evicts the record leaves
\* the table as it was, and a resolved row keeps its status.
RowsAreKept ==
    /\ [][ \A id \in DOMAIN db : id \in DOMAIN db' ]_vars
    /\ [][ (Held(aid) /\ ~Held(aid)') => db' = db ]_vars
    /\ [][ \A id \in DOMAIN db :
              (id \in DOMAIN db' /\ db[id].status # PENDING)
                  => db'[id].status = db[id].status ]_vars

\* C20: the durable row of an approval outlives its in-memory record, and a
\* durable read of the evicted id gives the record with its last status:
\* when the only writer of the record was one submission that was told
\* success (the timeout thread still asleep), a read that the store answers
\* finds the row, and its status is the decision of that submission.
C20_EvictedReadGivesLastStatus ==
    \A c \in Callers :
        (Evicted /\ OnlyCall(c) /\ c_ret[c] = "ok" /\ t_pc = "sleep")
        => /\ ReadRow(db, aid, TRUE).found
           /\ ReadRow(db, aid, TRUE).status = FinalStatus(c_arg[c].action)

\* C21: the sweep of cleanup_task never evicts a record whose creation time
\* is missing or cannot be used: every step leaves such a record in the
\* registry as it was, and leaves its event there.
C21_UnparsedNeverEvicted ==
    [][ (Held(aid) /\ ~AgeKnown(pending_approvals[aid].created_at))
            => /\ aid \in DOMAIN pending_approvals'
               /\ pending_approvals'[aid] = pending_approvals[aid]
               /\ aid \in DOMAIN approval_events
                      => aid \in DOMAIN approval_events' ]_vars

C21_Witness ==
    /\ k_pc = "sleep"
    /\ aged
    /\ Held(aid)
    /\ ~AgeKnown(pending_approvals[aid].created_at)
    /\ aid \in DOMAIN approval_events
    /\ db[aid].status = TIMEOUT

\* C22: cleanup_task removes a record from the registry only when it is
\* resolved and older than the threshold, or when its deadline has passed;
\* so the record of a request that is still waiting, still pending and not
\* yet at its deadline is never removed.
C22_EvictsOnlyResolvedOrExpired ==
    [][ (Held(aid) /\ ~Held(aid)')
            => \/ StatusOf(aid) # PENDING /\ aged
               \/ deadline_passed ]_vars

\* C23: a failure of the durable store never ends the reminder thread.
\* While the approval is pending in the record and in the row, its
\* reminders not cancelled and the count below max_reminders, no step ends
\* the thread: it goes on to its next reminder.
C23_ReminderSurvivesStoreFailure ==
    [][ ( /\ r_pc \notin {"unborn", "done"}
          /\ Held(aid)
          /\ StatusOf(aid) = PENDING
          /\ ~StopSeen
          /\ db[aid].status = PENDING
          /\ count < max_reminders )
        => r_pc' # "done" ]_vars

\* Call c is past the test of the status and has not yet returned: its
\* transition is being applied (api_handler.py:101-162).
Applying(c) == c_pc[c] \in {"w_status", "w_approver", "w_rest", "event", "ret"}

\* C24: a submission that finds the marker of the id set returns the
\* in-progress failure, and that step changes neither the records nor the
\* marker; so no two submissions are applying a transition to the id at
\* the same time.
C24_OneTransitionInFlight ==
    /\ [][ \A c \in Callers :
              (c_pc[c] = "guard" /\ aid \in processing_approvals /\ CallStep(c))
                  => /\ c_ret'[c] = "in_progress"
                     /\ UNCHANGED <<pending_approvals, processing_approvals>>
         ]_vars
    /\ [](\A c \in Callers : \A o \in Callers \ {c} :
              ~(Applying(c) /\ Applying(o)))

\* C25: inside a transition the status is stored before the event is set,
\* and the event has been set and the reminders cancelled before the
\* submission returns success; and every writer that takes the status of
\* the record from pending (a submission, the timeout thread, the deadline
\* path) has set the event of the id by the time it has finished.
C25_WakeFollowsEveryTransition ==
    /\ \A c \in Callers :
          c_pc[c] = "event" => (Held(aid) => StatusOf(aid) # PENDING)
    /\ \A c \in Callers :
          c_ret[c] = "ok" => (c \notin h_unwoken /\ aid \in stopped_reminders)
    /\ \A c \in Callers : c_pc[c] = "done" => c \notin h_unwoken
    /\ t_pc = "done" => TimeoutWriter \notin h_unwoken
    /\ w_pc = "done" => WaitWriter \notin h_unwoken

\* C26: when the request thread reaches its deadline, reads a row that is
\* still pending and returns timeout, the durable row is timeout and no
\* longer pending.
C26_ForcedTimeoutIsDurable ==
    ( /\ w_pc = "done"
      /\ w_result.result = TIMEOUT
      /\ w_row.found
      /\ w_row.status = PENDING )
    => db[aid].status = TIMEOUT

\* The step is a step of the timeout thread.
TimeoutStep == t_pc' # t_pc

\* C27: the timeout thread acts once; it changes nothing of a record that a
\* user has approved or rejected; and when it found the record pending it
\* ends only after it has set the event and cancelled the reminders, with
\* the record timeout by system.
C27_TimeoutFiresOnPendingOnly ==
    /\ [][ t_pc = "done" => t_pc' = "done" ]_vars
    /\ [][ ( /\ TimeoutStep
             /\ Held(aid)
             /\ StatusOf(aid) \in {APPROVED, REJECTED}
             /\ aid \in DOMAIN pending_approvals' )
           => DecisionFields(pending_approvals'[aid])
                  = DecisionFields(pending_approvals[aid]) ]_vars
    /\ [][ (t_pc \in {"w_status", "w_approver", "w_rest", "notify"}
               /\ t_pc' = "done")
           => /\ t_pc = "notify"
              /\ aid \in stopped_reminders'
              /\ aid \in DOMAIN approval_events'
              /\ approval_events'[aid]
              /\ aid \in DOMAIN pending_approvals'
              /\ pending_approvals'[aid].status = TIMEOUT
              /\ pending_approvals'[aid].approver = "system" ]_vars

\* C28: a call of cleanup_expired_approvals changes only rows that are
\* pending and older than their own timeout, and of those only the status,
\* which becomes timeout, with the history entry of it; a row that is approved, rejected or timeout keeps
\* its status and its approver through the call, whatever calls of
\* update_approval_status come before and after it.
C28_SweepTouchesStalePendingOnly ==
    [][ StoreCall("sweep")
            => /\ DOMAIN db' = DOMAIN db
               /\ \A id \in DOMAIN db :
                     IF db[id].status = PENDING /\ deadline_passed
                     THEN db'[id] \in {db[id],
                                       [db[id] EXCEPT
                                           !.status = TIMEOUT,
                                           !.history = Append(@, "timeout")]}
                     ELSE db'[id] = db[id] ]_vars

\* The sweep has run over a row that a client had decided before, past the
\* row's timeout.
C28_Witness ==
    /\ s_last.op = "sweep"
    /\ s_last.query_ok
    /\ s_last.late
    /\ aid \in DOMAIN db
    /\ db[aid].status = APPROVED
    /\ db[aid].approver = "alice"

\* A step of lock_approval.
LockStep == StoreCall("lock")

\* The lock of the row is one the holder may not take: it is set, it is not
\* older than its stated timeout, and it is another holder's.
HeldByAnother(row, holder) ==
    row.is_locked /\ row.lock_age <= row.lock_timeout /\ row.approver # holder

\* C29: lock_approval answers False and changes nothing for an id that has
\* no row and for a row whose unexpired lock is another holder's; a call the
\* store answers succeeds on a row that is unlocked, on a row the same holder
\* has locked, and on a row whose lock is older than its stated timeout, and
\* then the row is locked by the caller, with the caller's timeout, from
\* now.  A row has one holder at most, and once a lock is older than its
\* timeout any holder's call succeeds.
C29_LockRules ==
    [][ LockStep
            => LET call == s_last'
               IN  /\ call.id \notin DOMAIN db => ~call.ret /\ db' = db
                   /\ call.id \in DOMAIN db
                         => IF HeldByAnother(db[call.id], call.approver)
                            THEN ~call.ret /\ db' = db
                            ELSE call.query_ok
                                    => /\ call.ret
                                       /\ db' = [db EXCEPT ![call.id] =
                                                    [@ EXCEPT
                                                       !.is_locked = TRUE,
                                                       !.approver = call.approver,
                                                       !.lock_age = 0,
                                                       !.lock_timeout = call.ttl]] ]_vars

\* A holder has taken over the lock another holder left behind, once it was
\* older than its timeout.
C29_Witness ==
    /\ s_last.op = "lock"
    /\ s_last.ret
    /\ s_last.id \in DOMAIN s_last.found
    /\ s_last.found[s_last.id].is_locked
    /\ s_last.found[s_last.id].approver # s_last.approver
    /\ s_last.found[s_last.id].lock_age > s_last.found[s_last.id].lock_timeout
    /\ db[s_last.id].is_locked
    /\ db[s_last.id].approver = s_last.approver

\* A step of update_approval_status.
UpdateStep == StoreCall("update")

\* The row of the id exists, is pending, is locked, and its lock is the
\* caller's.
Writable(d, id, approver) ==
    /\ id \in DOMAIN d
    /\ d[id].status = PENDING
    /\ d[id].is_locked
    /\ d[id].approver = approver

\* C30: update_approval_status changes the table only when the row exists,
\* is pending, is locked and the caller holds the lock; otherwise the table
\* is unchanged and a call the store answers returns NOT_FOUND for a missing
\* row, else ALREADY_PROCESSED for a row that is not pending, else
\* LOCK_REQUIRED.  A call that returns SUCCESS has written the requested
\* status, the caller, the role and the comment and has cleared the lock,
\* and a call on a writable row that the store answers returns SUCCESS.
C30_UpdateRules ==
    [][ UpdateStep
            => LET call == s_last'
                   id == call.id
               IN  /\ db' # db => Writable(db, id, call.approver)
                   /\ ~Writable(db, id, call.approver)
                         => /\ db' = db
                            /\ call.query_ok
                                  => call.ret =
                                        IF id \notin DOMAIN db
                                        THEN "NOT_FOUND"
                                        ELSE IF db[id].status # PENDING
                                        THEN "ALREADY_PROCESSED"
                                        ELSE "LOCK_REQUIRED"
                   /\ Writable(db, id, call.approver) /\ call.query_ok
                         => call.ret = "SUCCESS"
                   /\ db' # db \/ call.ret = "SUCCESS"
                         => /\ db'[id].status = call.status
                            /\ db'[id].approver = call.approver
                            /\ ~db'[id].is_locked
                            /\ db'[id].timeout_seconds = db[id].timeout_seconds ]_vars

\* The holder of the lock has decided a pending row.
C30_Witness ==
    /\ s_last.op = "update"
    /\ s_last.ret = "SUCCESS"
    /\ s_last.id \in DOMAIN s_last.found
    /\ s_last.found[s_last.id].status = PENDING
    /\ s_last.found[s_last.id].is_locked
    /\ db[s_last.id].status = s_last.status
    /\ ~db[s_last.id].is_locked

\* C31: once a call of _handle_approval that took the advisory lock has
\* returned, whatever it answered, the row of the id is not locked by the
\* caller.
C31_LockReleasedOnReturn ==
    (g_pc = "done" /\ g_locked /\ aid \in DOMAIN db)
        => ~(db[aid].is_locked /\ db[aid].approver = g_arg.user)

\* C32: a step of _handle_approval changes the records or the events only
\* past a successful update_approval_status, when the row carries the
\* status the caller asked for; a call that ends because the lock was refused or the
\* update failed answers a failure and has changed neither.
C32_MemoryFollowsDurableSuccess ==
    [][ handle_approval
            => /\ (pending_approvals' # pending_approvals
                      \/ approval_events' # approval_events)
                     => /\ g_pc \in {"w_status", "w_rest", "cancel", "event"}
                        /\ aid \in DOMAIN db
                        /\ db[aid].status = FinalStatus(g_arg.action)
               /\ (g_pc \in {"lock", "update"} /\ g_pc' = "done")
                     => g_ret' \in {"locked", "update_failed"} ]_vars

\* The lock was another user's: the call has answered a failure and the
\* record is pending as before.
C32_Witness ==
    /\ g_pc = "done"
    /\ g_ret = "locked"
    /\ aid \in DOMAIN db
    /\ db[aid].is_locked
    /\ db[aid].approver # g_arg.user
    /\ Held(aid)
    /\ StatusOf(aid) = PENDING
    /\ pending_approvals[aid].approver = NoValue

\* C33: the reminder thread of an approval ends; once it has ended it sends
\* nothing more and stays ended; and no step of it changes a record, an
\* event or a row, so it never changes the approval's status.
C33_ReminderTerminates ==
    /\ (r_pc # "unborn") ~> (r_pc = "done")
    /\ [][ r_pc = "done" => r_pc' = "done" /\ h_reminders' = h_reminders ]_vars
    /\ [][ reminder_task
              => UNCHANGED <<pending_approvals, approval_events, db>> ]_vars

\* The thread has ended on its own after max_reminders reminders: nobody
\* decided and nobody cancelled.
C33_Witness ==
    /\ r_pc = "done"
    /\ Len(h_reminders) = max_reminders
    /\ Held(aid)
    /\ StatusOf(aid) = PENDING
    /\ ~pending_approvals[aid].reminder_stopped
    /\ aid \notin stopped_reminders

\* The status and the approver of every record.
Decisions(pa) == [id \in DOMAIN pa |-> <<pa[id].status, pa[id].approver>>]

\* C34: after a call of _cancel_reminder_timer a second call for the same id
\* changes nothing, and a call, whether the id has a schedule, has none or
\* was cancelled before, leaves every record's status and approver and every
\* event as they were.
C34_CancelIdempotent ==
    [][ \A id \in StoreIds :
          cancel_reminder_timer(id)
             => /\ CancelStopped(stopped_reminders', id) = stopped_reminders'
                /\ CancelRecords(pending_approvals', id) = pending_approvals'
                /\ CancelTimers(reminder_timers', id) = reminder_timers'
                /\ Decisions(pending_approvals') = Decisions(pending_approvals)
                /\ approval_events' = approval_events ]_vars

\* The schedule of the approval was cancelled while it was pending, and so
\* was the schedule of an id that never had one.
C34_Witness ==
    /\ unknown_id \in stopped_reminders
    /\ aid \in stopped_reminders
    /\ aid \notin reminder_timers
    /\ Held(aid)
    /\ StatusOf(aid) = PENDING
    /\ pending_approvals[aid].reminder_stopped
    /\ c_pc[1] = "idle"
    /\ t_pc = "sleep"

\* C35: a call of lock_approval or unlock_approval leaves the status and the
\* approver of every row as they were.
C35_LockLeavesDecision ==
    [][ (StoreCall("lock") \/ StoreCall("unlock"))
            => \A id \in DOMAIN db :
                  /\ db'[id].status = db[id].status
                  /\ db'[id].approver = db[id].approver ]_vars

\* Nothing is registered for the id: no record, no event, no reminder
\* thread, no timeout thread.
NothingRegistered ==
    /\ ~Held(aid)
    /\ aid \notin DOMAIN approval_events
    /\ aid \notin reminder_timers
    /\ r_pc = "unborn"
    /\ t_pc = "unborn"

CallMarked(c) ==
    c_pc[c] \in {"check", "status", "w_status", "w_approver", "w_rest",
                 "event", "ret"}

\* The call of _handle_approval has set the marker and has not returned.
HandleMarked ==
    g_pc \in {"find", "read", "lock", "update", "held", "w_status", "w_rest",
              "cancel", "event", "unlock"}

\* C37: a call that has set the in-progress marker leaves it cleared when it
\* returns, whatever it answers; so the id is marked only while a call that
\* set the marker has not returned, no id is marked once every call has
\* returned, and a call is answered in progress only while another call is
\* between setting the marker and returning.
C37_MarkerClearedOnReturn ==
    /\ [](aid \in processing_approvals
             => HandleMarked \/ \E c \in Callers : CallMarked(c))
    /\ [][ \A c \in Callers :
              (CallMarked(c) /\ c_pc'[c] = "done")
                 => aid \notin processing_approvals' ]_vars
    /\ [][ (HandleMarked /\ g_pc' = "done")
              => aid \notin processing_approvals' ]_vars

\* Two calls passed the test of the marker together and both set it; both
\* have returned, one with a failure, and the id is not marked.
C37_Witness ==
    /\ c_pc[1] = "done"
    /\ g_pc = "done"
    /\ c_ret[1] = "ok"
    /\ g_ret \in {"already_processed", "update_failed", "locked"}
    /\ h_at_call[1] = PENDING
    /\ aid \notin processing_approvals

\* The terminal actions of a history.
Terminal == {APPROVED, REJECTED, TIMEOUT}

\* The positions of a history that carry one of the actions.
Entries(h, actions) == {i \in 1..Len(h) : h[i] \in actions}

ManagerEligible ==
    /\ m_last.id \in DOMAIN m_last.cache
    /\ m_last.cache[m_last.id].status = PENDING
    /\ check_approver_permission(m_last.username)
    /\ m_last.action \in {"approved", "rejected"}

C39_ProcessChangesOnlyWhenEligible ==
    m_last.op = "process" =>
        /\ ManagerEligible =>
              /\ m_last.ok
              /\ approval_cache[m_last.id].status = m_last.action
              /\ approval_cache[m_last.id].processed_by = m_last.username
        /\ ~ManagerEligible =>
              /\ ~m_last.ok
              /\ m_last.message \in
                    {NotExists, AlreadyHandled, NoPermission, InvalidAction}
              /\ approval_cache = m_last.cache
              /\ rejected_builds_cache = m_last.rejected
        /\ \A id \in DOMAIN approval_cache \ {m_last.id} :
              approval_cache[id] = m_last.cache[id]
        /\ ~m_last.ok =>
              \A id \in DOMAIN approval_cache \cap {m_last.id} :
                  approval_cache[id].status = m_last.cache[id].status

\* A permitted user's call with an action the method does not know, on a
\* pending approval, after another build was rejected: it is refused and
\* nothing changed.
C39_Witness ==
    /\ m_last.op = "process"
    /\ ~m_last.ok
    /\ m_last.message = InvalidAction
    /\ m_last.id \in DOMAIN approval_cache
    /\ approval_cache[m_last.id].status = PENDING
    /\ DOMAIN rejected_builds_cache # {}
    /\ \E id \in DOMAIN approval_cache : approval_cache[id].status = REJECTED
====
